---- MODULE Spec2Model ----
(***************************************************************************)
(* A model of the recipe-generation backend (SaltyBytes-api):              *)
(*   - the Generation Client's retry loops (internal/openai/openai.go),    *)
(*   - tag normalisation and the Tag Associator (service package),         *)
(*   - the generation orchestrator FinishGenerateRecipeWithChat.           *)
(* Each part has its own specification over its own variables; the        *)
(* variables of the other parts stay at their initial values.             *)
(***************************************************************************)
EXTENDS Integers, Sequences, FiniteSets, TLC

VARIABLES
    \* ---- Generation Client (one logical call) ----
    cpc,        \* position of the call: "idle", "loop", "after", "done"
    ckind,      \* "chat" (CreateRecipeChatCompletion) or "image" (CreateImage)
    ci,         \* the loop counter i
    cerr,       \* the variable err: NoErr or the last provider error
    cresp,      \* the variable resp / respBase64: the last provider answer
    attempts,   \* number of provider calls made by this logical call
    sleeps,     \* seconds slept in time.Sleep by this logical call
    resps,      \* the provider's answers to this call, in order
    cresult,    \* what the call returned: [err |-> message, value |-> payload]
    \* ---- cleanHashtag applied to a raw tag and to a variant of it ----
    hashtagIn,  \* the raw hashtag
    hashtagOut, \* [set |-> whether cleanHashtag ran, val |-> its result]
    variantIn,  \* a raw hashtag one edit away from hashtagIn
    variantOut, \* cleanHashtag's result for it, as hashtagOut
    \* ---- Draft Store: tags ----
    tagRows,    \* the tags table: row id i holds the Hashtag tagRows[i]
    recipeTags, \* the recipe/tag join table: recipe id -> set of tag row ids
    prevCall,   \* the previous AssociateTagsWithRecipe call: recipe, tag set, ok
    repeated,   \* the last call repeated the previous one and both succeeded
    \* ---- AssociateTagsWithRecipe calls of runs that execute concurrently ----
    jobs,       \* per run: position in the call, its hashtags, index, associatedTags
    raced,      \* a call started while another call was in progress
    \* ---- one generation run (InitGenerateRecipeWithChat, then
    \*      FinishGenerateRecipeWithChat and its two goroutines) ----
    recipeRow,  \* Draft Store: the row of the run's recipe
    s3Image,    \* Image Store: whether an object exists under the recipe's key
    rec,        \* the *models.Recipe shared by the supervisor and the text stage
    mgr,        \* the *openai.RecipeManager shared by the two stages
    supPc,      \* position of the supervising task
    textPc,     \* position of the text-stage goroutine
    textMsg,    \* the value the text stage sends on recipeErrChan
    imagePc,    \* position of the image-stage goroutine
    imageMsg,   \* the value the image stage sends on imageErrChan
    expired,    \* ctx.Done() is closed: the 5-minute deadline has passed
    textBranch, \* branch the supervisor took in its first select
    imageBranch,\* branch the supervisor took in its second select
    deleteResult, \* what the supervisor's DeleteRecipe call did
    log,        \* the store operations of the run, in order
    panicked,   \* a goroutine of the run panicked
    \* ---- one run of the older orchestrator CompleteRecipeGeneration ----
    userKey,    \* user.Settings.EncryptedOpenAIKey
    publicKey,  \* cfg.Env.PublicOpenAIKey
    key,        \* the goroutine's variable key
    keyUses,    \* the keys given to openai.NewOpenaiClient, in order
    chooseCalls,\* number of chooseAPIKey calls of the run
    gPc,        \* position of the generation goroutine
    sPc,        \* position of CompleteRecipeGeneration itself
    doneClosed, \* close(done) was executed
    gExpired,   \* ctx.Done() is closed: the 5-minute deadline has passed
    gSteps,     \* the store steps of the goroutine that succeeded
    generationComplete, \* the recipe's GenerationComplete flag in the store
    gPanicked,  \* the goroutine panicked sending on the closed channel
    \* ---- per-IP rate limiter (RateLimitByIPMiddleware) ----
    now,        \* time.Now(), in units of the model clock
    limiters,   \* the sync.Map limiters: entries key -> *limiterInfo
    lastSeen,   \* field lastSeen of every limiterInfo allocated so far
    reqs,       \* the requests in the middleware: position, ip, info
    sweepPc,    \* position of the cleanup goroutine
    sweepLeft,  \* keys the running limiters.Range still visits
    sweepKey,   \* the key the cleanup goroutine is about to Delete
    \* ---- soft delete and trash (routes.go) ----
    today,      \* time.Now(), in days
    recipeDeletedAt, \* column DeletedAt of the recipe row (NoDay is nil)
    collectedRecipes, \* users whose CollectedRecipes holds the recipe
    response,   \* the last response of a trash handler
    \* ---- VerifyOpenAIKey ----
    vKey,       \* argument key
    vPc,        \* position of the call
    attempt,    \* loop variable attempt
    vAnswers,   \* the provider's answers to the test calls, in order
    vSlept,     \* seconds slept by the call
    vResult     \* the returned (bool, error)

clientVars == <<cpc, ckind, ci, cerr, cresp, attempts, sleeps, resps, cresult>>
cleanVars == <<hashtagIn, hashtagOut, variantIn, variantOut>>
tagStoreVars == <<tagRows, recipeTags>>
tagCallVars == <<prevCall, repeated>>
jobVars == <<jobs, raced>>
completeVars == <<userKey, publicKey, key, keyUses, chooseCalls, gPc, sPc, doneClosed,
                  gExpired, gSteps, generationComplete, gPanicked>>

runVars == <<recipeRow, s3Image, rec, mgr, supPc, textPc, textMsg, imagePc, imageMsg,
             expired, textBranch, imageBranch, deleteResult, log, panicked>>

\* The variables of the parts outside the generation core.
limiterVars == <<now, limiters, lastSeen, reqs, sweepPc, sweepLeft, sweepKey>>
trashVars == <<today, recipeDeletedAt, collectedRecipes, response>>
verifyVars == <<vKey, vPc, attempt, vAnswers, vSlept, vResult>>
peripheralVars == <<completeVars, limiterVars, trashVars, verifyVars>>

vars == <<clientVars, cleanVars, tagStoreVars, tagCallVars, jobVars, runVars,
          peripheralVars>>

\* What an action of one part leaves alone: the variables of the other parts.
nonClientVars == <<cleanVars, tagStoreVars, tagCallVars, jobVars, runVars, peripheralVars>>
nonCleanVars == <<clientVars, tagStoreVars, tagCallVars, jobVars, runVars, peripheralVars>>
nonTagVars == <<clientVars, cleanVars, jobVars, runVars, peripheralVars>>
nonJobVars == <<clientVars, cleanVars, tagCallVars, runVars, peripheralVars>>
nonRunVars == <<clientVars, cleanVars, tagCallVars, jobVars, peripheralVars>>
coreVars == <<clientVars, cleanVars, tagStoreVars, tagCallVars, jobVars, runVars>>
nonCompleteVars == <<coreVars, limiterVars, trashVars, verifyVars>>
nonLimiterVars == <<coreVars, completeVars, trashVars, verifyVars>>
nonTrashVars == <<coreVars, completeVars, limiterVars, verifyVars>>
nonVerifyVars == <<coreVars, completeVars, limiterVars, trashVars>>

-----------------------------------------------------------------------------
(***************************************************************************)
(* Generation Client                                                       *)
(***************************************************************************)

\* Mutant: the loop gives up one attempt early.
maxRetries_oneLess == 5 - 1

\* The loop bound "maxRetries := 5" of both client calls.
maxRetries == 5

\* Seconds of backoff returned by handleAPIError for a retryable error.
backoffSeconds == 2

NoErr == [api |-> FALSE, status |-> 0]

\* HTTP statuses the provider is made to answer with (401 authorization, 429
\* rate limit, 500 server error, 503 overload, 400 bad request).
Statuses == {401, 429, 500, 503, 400}

\* An error of the provider library: an *openai.APIError with a status, or
\* any other error (a transport failure), for which errors.As fails.
ProviderErrors ==
    {[api |-> TRUE, status |-> s] : s \in Statuses} \cup {[api |-> FALSE, status |-> -1]}

\* A provider answer without error: n result entries (Choices / Data), the
\* first with the given payload ("" empty, "good" parses, "bad" does not).
ProviderPayloads ==
    {[n |-> 0, body |-> ""], [n |-> 1, body |-> ""],
     [n |-> 1, body |-> "good"], [n |-> 1, body |-> "bad"]}

ZeroResp == [n |-> 0, body |-> ""]

\* What one provider call gives back: (resp, err).
ProviderAnswers ==
    {[err |-> NoErr, resp |-> p] : p \in ProviderPayloads}
        \cup {[err |-> e, resp |-> ZeroResp] : e \in ProviderErrors}

ErrAuth      == "invalid auth or key. Do not retry"
ErrRate      == "rate limiting or engine overload. Will retry"
ErrServer    == "openAI server error. Will retry"
ErrUnhandled == "unhandled error"
ErrExhausted == "exhausted maximum retries. Exiting"
ErrEmpty     == "OpenAI API returned an empty result"
ErrParse     == "failed to decode the payload"

\* Mutant: a 401 is treated like a rate limit and retried.
handleAPIError_retry401(respErr) ==
    IF respErr.api /\ respErr.status \in {401, 429}
    THEN [shouldRetry |-> TRUE, waitTime |-> backoffSeconds, err |-> ErrRate]
    ELSE IF respErr.api /\ respErr.status = 500
    THEN [shouldRetry |-> TRUE, waitTime |-> backoffSeconds, err |-> ErrServer]
    ELSE [shouldRetry |-> FALSE, waitTime |-> 0, err |-> ErrUnhandled]

\* handleAPIError: (shouldRetry, waitTime, err) for a provider error.
handleAPIError(respErr) ==
    IF respErr.api
    THEN CASE respErr.status = 401 ->
                [shouldRetry |-> FALSE, waitTime |-> 0, err |-> ErrAuth]
           [] respErr.status = 429 ->
                [shouldRetry |-> TRUE, waitTime |-> backoffSeconds, err |-> ErrRate]
           [] respErr.status = 500 ->
                [shouldRetry |-> TRUE, waitTime |-> backoffSeconds, err |-> ErrServer]
           [] OTHER ->
                [shouldRetry |-> FALSE, waitTime |-> 0, err |-> ErrUnhandled]
    ELSE [shouldRetry |-> FALSE, waitTime |-> 0, err |-> ErrUnhandled]

\* Mutant: the "if err != nil" test after the loop is missing, so an
\* exhausted loop falls through to the empty-response test.
AfterLoop_noExhaustedCheck(err, resp) ==
    IF resp.n = 0 \/ resp.body = ""
    THEN [err |-> ErrEmpty, value |-> ""]
    ELSE IF resp.body = "bad"
    THEN [err |-> ErrParse, value |-> ""]
    ELSE [err |-> "", value |-> resp.body]

\* The code after the retry loop: exhausted retries, empty result, payload
\* that does not decode (json.Unmarshal / base64), or the decoded payload.
AfterLoop(err, resp) ==
    IF err # NoErr
    THEN [err |-> ErrExhausted, value |-> ""]
    ELSE IF resp.n = 0 \/ resp.body = ""
    THEN [err |-> ErrEmpty, value |-> ""]
    ELSE IF resp.body = "bad"
    THEN [err |-> ErrParse, value |-> ""]
    ELSE [err |-> "", value |-> resp.body]

NoResult == [err |-> "none", value |-> ""]

ClientInit ==
    /\ cpc = "idle"
    /\ ckind = "none"
    /\ ci = 0
    /\ cerr = NoErr
    /\ cresp = ZeroResp
    /\ attempts = 0
    /\ sleeps = 0
    /\ resps = <<>>
    /\ cresult = NoResult

\* Entry of CreateRecipeChatCompletion: the request is built, i := 0.
CreateRecipeChatCompletion ==
    /\ cpc = "idle"
    /\ cpc' = "loop"
    /\ ckind' = "chat"
    /\ UNCHANGED <<ci, cerr, cresp, attempts, sleeps, resps, cresult>>
    /\ UNCHANGED nonClientVars

\* Entry of CreateImage: i := 0.
CreateImage ==
    /\ cpc = "idle"
    /\ cpc' = "loop"
    /\ ckind' = "image"
    /\ UNCHANGED <<ci, cerr, cresp, attempts, sleeps, resps, cresult>>
    /\ UNCHANGED nonClientVars

\* One iteration of the retry loop, with the provider answering a.
LoopIteration(a) ==
    /\ cpc = "loop"
    /\ ci < maxRetries
    /\ attempts' = attempts + 1
    /\ resps' = Append(resps, a)
    /\ cerr' = a.err
    /\ cresp' = a.resp
    /\ IF a.err = NoErr
       THEN \* break
            /\ cpc' = "after"
            /\ UNCHANGED <<ci, sleeps, cresult>>
       ELSE LET h == handleAPIError(a.err) IN
            IF ~h.shouldRetry
            THEN \* return nil, noRetryErr
                 /\ cpc' = "done"
                 /\ cresult' = [err |-> h.err, value |-> ""]
                 /\ UNCHANGED <<ci, sleeps>>
            ELSE \* time.Sleep(waitTime); i++
                 /\ sleeps' = sleeps + h.waitTime
                 /\ ci' = ci + 1
                 /\ cpc' = IF ci + 1 < maxRetries THEN "loop" ELSE "after"
                 /\ UNCHANGED cresult
    /\ UNCHANGED ckind
    /\ UNCHANGED nonClientVars

ClientAttempt == \E a \in ProviderAnswers : LoopIteration(a)

\* The statements after the loop, up to the return.
ClientReturn ==
    /\ cpc = "after"
    /\ cpc' = "done"
    /\ cresult' = AfterLoop(cerr, cresp)
    /\ UNCHANGED <<ckind, ci, cerr, cresp, attempts, sleeps, resps>>
    /\ UNCHANGED nonClientVars

ClientNext ==
    \/ CreateRecipeChatCompletion
    \/ CreateImage
    \/ ClientAttempt
    \/ ClientReturn

-----------------------------------------------------------------------------
(***************************************************************************)
(* Tag normalisation (cleanHashtag)                                        *)
(***************************************************************************)

\* Longest raw hashtag tried, in characters.
MaxTagLen == 3

\* The characters raw hashtags are made of: a letter in both cases, a second
\* letter, the space and the '#'.
TagChars == {"a", "A", "b", " ", "#"}

\* A string is a sequence of characters.
RawHashtags == UNION {[1..n -> TagChars] : n \in 0..MaxTagLen}

\* strings.ToLower, per character.
ToLowerChar(c) == CASE c = "A" -> "a" [] c = "B" -> "b" [] OTHER -> c

ToLower(h) == [j \in 1..Len(h) |-> ToLowerChar(h[j])]

\* strings.ReplaceAll(h, old, ""), for a one-character old.
RECURSIVE RemoveAll(_, _)
RemoveAll(h, old) ==
    IF h = <<>> THEN <<>>
    ELSE IF Head(h) = old THEN RemoveAll(Tail(h), old)
    ELSE <<Head(h)>> \o RemoveAll(Tail(h), old)

\* strings.TrimPrefix(h, prefix), for a one-character prefix: the prefix is
\* removed once.
TrimPrefix(h, prefix) ==
    IF h # <<>> /\ Head(h) = prefix THEN Tail(h) ELSE h

\* cleanHashtag: lower case, spaces removed, then one leading '#' removed.
cleanHashtag(hashtag) == TrimPrefix(RemoveAll(ToLower(hashtag), " "), "#")

Unset == [set |-> FALSE, val |-> <<>>]

CleanInit ==
    /\ hashtagIn \in RawHashtags
    /\ hashtagOut = Unset
    /\ variantIn = <<>>
    /\ variantOut = Unset

CleanIdle ==
    /\ hashtagIn = <<>>
    /\ hashtagOut = Unset
    /\ variantIn = <<>>
    /\ variantOut = Unset

\* cleanHashtag is called on the raw hashtag.
CleanCall ==
    /\ ~hashtagOut.set
    /\ hashtagOut' = [set |-> TRUE, val |-> cleanHashtag(hashtagIn)]
    /\ UNCHANGED <<hashtagIn, variantIn, variantOut>>
    /\ UNCHANGED nonCleanVars

\* The raw hashtags that differ from h in the case of one letter, in one
\* space character, or in a leading '#'.
CaseFlip(c) == CASE c = "a" -> "A" [] c = "A" -> "a" [] OTHER -> c

Variants(h) ==
    {[h EXCEPT ![j] = CaseFlip(h[j])] : j \in 1..Len(h)}
        \cup {SubSeq(h, 1, j) \o <<" ">> \o SubSeq(h, j + 1, Len(h)) : j \in 0..Len(h)}
        \cup {SubSeq(h, 1, j - 1) \o SubSeq(h, j + 1, Len(h)) :
                 j \in {k \in 1..Len(h) : h[k] = " "}}
        \cup {<<"#">> \o h}
        \cup (IF h # <<>> /\ Head(h) = "#" THEN {Tail(h)} ELSE {})

\* cleanHashtag is called on a variant of the raw hashtag.
CleanVariantCall ==
    /\ hashtagOut.set
    /\ ~variantOut.set
    /\ \E v \in Variants(hashtagIn) :
          /\ variantIn' = v
          /\ variantOut' = [set |-> TRUE, val |-> cleanHashtag(v)]
    /\ UNCHANGED <<hashtagIn, hashtagOut>>
    /\ UNCHANGED nonCleanVars

CleanNext ==
    \/ CleanCall
    \/ CleanVariantCall

-----------------------------------------------------------------------------
(***************************************************************************)
(* Tag Associator (AssociateTagsWithRecipe) and the tag tables             *)
(***************************************************************************)

\* Recipes in the Draft Store whose tags are associated.
RecipeIds == {1, 2}

\* Longest hashtag list given to one AssociateTagsWithRecipe call.
MaxTags == 2

\* The raw hashtags the text stage emits: three spellings of one tag and a
\* second tag.
TagPool == {<<"#", "A">>, <<"a">>, <<"A", " ">>, <<"b">>}

HashtagLists == UNION {[1..n -> TagPool] : n \in 0..MaxTags}

Range(f) == {f[j] : j \in DOMAIN f}

\* Mutant: the lookup never finds a row.
FindTagByName_neverFinds(rows, name) == 0

\* Repo.FindTagByName: the id of the first row with this Hashtag, 0 when
\* there is none (record not found).
FindTagByName(rows, name) ==
    IF \E j \in DOMAIN rows : rows[j] = name
    THEN CHOOSE j \in DOMAIN rows :
            rows[j] = name /\ \A k \in DOMAIN rows : rows[k] = name => j <= k
    ELSE 0

\* Repo.CreateTag: a new row; its id is assigned by the table.
CreateTag(rows, name) == Append(rows, name)

\* Mutant: the resolved tags are added to the recipe's association.
UpdateRecipeTagsAssociation_additive(assoc, recipeID, tagIds) ==
    [assoc EXCEPT ![recipeID] = @ \cup Range(tagIds)]

\* Repo.UpdateRecipeTagsAssociation: the recipe's association is replaced.
UpdateRecipeTagsAssociation(assoc, recipeID, tagIds) ==
    [assoc EXCEPT ![recipeID] = Range(tagIds)]

\* The store call of one AssociateTagsWithRecipe run that fails, if any.
NoFail == [op |-> "none", at |-> 0]
StoreFails(tags) ==
    {NoFail, [op |-> "update", at |-> 0]}
        \cup {[op |-> o, at |-> j] : o \in {"find", "create"}, j \in 1..Len(tags)}

ErrFindTag   == "database error while searching for tag"
ErrCreateTag == "failed to create new tag"
ErrUpdateTags == "failed to update recipe with tags"

\* Mutant: the lookup is skipped and a tag row is created for every hashtag.
RECURSIVE ResolveTags_alwaysCreate(_, _, _, _, _)
ResolveTags_alwaysCreate(rows, tags, j, associatedTags, fail) ==
    IF j > Len(tags)
    THEN [rows |-> rows, associatedTags |-> associatedTags, err |-> ""]
    ELSE IF fail = [op |-> "create", at |-> j]
    THEN [rows |-> rows, associatedTags |-> associatedTags, err |-> ErrCreateTag]
    ELSE ResolveTags_alwaysCreate(CreateTag(rows, cleanHashtag(tags[j])), tags, j + 1,
                                  Append(associatedTags, Len(rows) + 1), fail)

\* The loop of AssociateTagsWithRecipe from hashtag j on: each hashtag is
\* cleaned and looked up; a tag that is not found is created.
RECURSIVE ResolveTags(_, _, _, _, _)
ResolveTags(rows, tags, j, associatedTags, fail) ==
    IF j > Len(tags)
    THEN [rows |-> rows, associatedTags |-> associatedTags, err |-> ""]
    ELSE LET cleanedHashtag == cleanHashtag(tags[j])
             existingTag == FindTagByName(rows, cleanedHashtag)
         IN  IF fail = [op |-> "find", at |-> j]
             THEN [rows |-> rows, associatedTags |-> associatedTags, err |-> ErrFindTag]
             ELSE IF existingTag # 0
             THEN ResolveTags(rows, tags, j + 1, Append(associatedTags, existingTag), fail)
             ELSE IF fail = [op |-> "create", at |-> j]
             THEN [rows |-> rows, associatedTags |-> associatedTags, err |-> ErrCreateTag]
             ELSE ResolveTags(CreateTag(rows, cleanedHashtag), tags, j + 1,
                              Append(associatedTags, Len(rows) + 1), fail)

\* Mutant: when the loop fails, the tags resolved so far are associated.
AssociateTagsWithRecipe_partialUpdate(rows, assoc, recipeID, tags, fail) ==
    LET r == ResolveTags(rows, tags, 1, <<>>, fail) IN
    IF r.err # ""
    THEN [rows |-> r.rows,
          assoc |-> UpdateRecipeTagsAssociation(assoc, recipeID, r.associatedTags),
          err |-> r.err]
    ELSE IF fail.op = "update"
    THEN [rows |-> r.rows, assoc |-> assoc, err |-> ErrUpdateTags]
    ELSE [rows |-> r.rows,
          assoc |-> UpdateRecipeTagsAssociation(assoc, recipeID, r.associatedTags),
          err |-> ""]

\* AssociateTagsWithRecipe: the tables afterwards and the error returned.
AssociateTagsWithRecipe(rows, assoc, recipeID, tags, fail) ==
    LET r == ResolveTags(rows, tags, 1, <<>>, fail) IN
    IF r.err # ""
    THEN [rows |-> r.rows, assoc |-> assoc, err |-> r.err]
    ELSE IF fail.op = "update"
    THEN [rows |-> r.rows, assoc |-> assoc, err |-> ErrUpdateTags]
    ELSE [rows |-> r.rows,
          assoc |-> UpdateRecipeTagsAssociation(assoc, recipeID, r.associatedTags),
          err |-> ""]

\* The set of normalized texts a hashtag list stands for.
CleanedSet(tags) == {cleanHashtag(tags[j]) : j \in DOMAIN tags}

NoCall == [recipe |-> 0, tags |-> {}, ok |-> FALSE]

TagStoreInit ==
    /\ tagRows = <<>>
    /\ recipeTags = [r \in RecipeIds |-> {}]

TagsInit ==
    /\ TagStoreInit
    /\ prevCall = NoCall
    /\ repeated = FALSE

\* One sequential call AssociateTagsWithRecipe(recipe, tags).
AssociateCall(recipeID, tags, fail) ==
    LET res == AssociateTagsWithRecipe(tagRows, recipeTags, recipeID, tags, fail)
        call == [recipe |-> recipeID, tags |-> CleanedSet(tags), ok |-> res.err = ""]
    IN  /\ tagRows' = res.rows
        /\ recipeTags' = res.assoc
        /\ prevCall' = call
        /\ repeated' = (prevCall.ok /\ call.ok /\ call.tags # {}
                          /\ [call EXCEPT !.ok = TRUE] = prevCall)
        /\ UNCHANGED nonTagVars

TagsAssociate ==
    \E recipeID \in RecipeIds, tags \in HashtagLists :
        \E fail \in StoreFails(tags) : AssociateCall(recipeID, tags, fail)

TagsNext ==
    \/ TagsAssociate

\* ---- AssociateTagsWithRecipe of concurrent runs, one store call per step ----

\* The runs whose text stages associate tags at the same time, each for its
\* own recipe.
Jobs == RecipeIds

IdleJob == [pc |-> "idle", tags |-> <<>>, j |-> 0, associatedTags |-> <<>>, err |-> ""]

JobsInit ==
    /\ jobs = [r \in Jobs |-> IdleJob]
    /\ raced = FALSE

\* Where the loop goes after hashtag j: to the next hashtag, or past the
\* loop to UpdateRecipeTagsAssociation.
AfterHashtag(job) == IF job.j < Len(job.tags) THEN "find" ELSE "update"

\* The text stage of run r calls AssociateTagsWithRecipe(recipe, tags).
JobStart(r) ==
    /\ jobs[r].pc = "idle"
    /\ \E tags \in HashtagLists :
          jobs' = [jobs EXCEPT ![r] =
                      [IdleJob EXCEPT !.tags = tags,
                                      !.j = IF tags = <<>> THEN 0 ELSE 1,
                                      !.pc = IF tags = <<>> THEN "update" ELSE "find"]]
    /\ raced' = (raced \/ \E q \in Jobs \ {r} : jobs[q].pc \notin {"idle", "done"})
    /\ UNCHANGED <<tagStoreVars, nonJobVars>>

\* s.Repo.FindTagByName(cleanHashtag(hashtag)): found, not found, or a
\* database error that ends the call.
JobFindTagByName(r) ==
    /\ jobs[r].pc = "find"
    /\ LET job == jobs[r]
           existingTag == FindTagByName(tagRows, cleanHashtag(job.tags[job.j]))
       IN  \/ jobs' = [jobs EXCEPT ![r].pc = "done", ![r].err = ErrFindTag]
           \/ /\ existingTag # 0
              /\ jobs' = [jobs EXCEPT
                             ![r].associatedTags = Append(@, existingTag),
                             ![r].j = IF job.j < Len(job.tags) THEN @ + 1 ELSE @,
                             ![r].pc = AfterHashtag(job)]
           \/ /\ existingTag = 0
              /\ jobs' = [jobs EXCEPT ![r].pc = "create"]
    /\ UNCHANGED <<raced, tagStoreVars, nonJobVars>>

\* s.Repo.CreateTag(&newTag) for the hashtag that was not found.
JobCreateTag(r) ==
    /\ jobs[r].pc = "create"
    /\ LET job == jobs[r] IN
           \/ /\ jobs' = [jobs EXCEPT ![r].pc = "done", ![r].err = ErrCreateTag]
              /\ UNCHANGED tagRows
           \/ /\ tagRows' = CreateTag(tagRows, cleanHashtag(job.tags[job.j]))
              /\ jobs' = [jobs EXCEPT
                             ![r].associatedTags = Append(@, Len(tagRows) + 1),
                             ![r].j = IF job.j < Len(job.tags) THEN @ + 1 ELSE @,
                             ![r].pc = AfterHashtag(job)]
    /\ UNCHANGED <<raced, recipeTags, nonJobVars>>

\* s.Repo.UpdateRecipeTagsAssociation(recipe.ID, associatedTags).
JobUpdateAssociation(r) ==
    /\ jobs[r].pc = "update"
    /\ \/ /\ jobs' = [jobs EXCEPT ![r].pc = "done", ![r].err = ErrUpdateTags]
          /\ UNCHANGED recipeTags
       \/ /\ recipeTags' = UpdateRecipeTagsAssociation(recipeTags, r,
                                                        jobs[r].associatedTags)
          /\ jobs' = [jobs EXCEPT ![r].pc = "done"]
    /\ UNCHANGED <<raced, tagRows, nonJobVars>>

JobsStart == \E r \in Jobs : JobStart(r)
JobsFindTagByName == \E r \in Jobs : JobFindTagByName(r)
JobsCreateTag == \E r \in Jobs : JobCreateTag(r)
JobsUpdateAssociation == \E r \in Jobs : JobUpdateAssociation(r)

JobsNext ==
    \/ JobsStart
    \/ JobsFindTagByName
    \/ JobsCreateTag
    \/ JobsUpdateAssociation

-----------------------------------------------------------------------------
(***************************************************************************)
(* The generation run: InitGenerateRecipeWithChat creates the draft, then  *)
(* FinishGenerateRecipeWithChat supervises the text-stage goroutine and    *)
(* the image-stage goroutine under one 5-minute context.                   *)
(***************************************************************************)

\* The ID the Draft Store gives the run's recipe.
RunRecipeID == 1

\* Most entries GenerateRecipeWithChat leaves in RecipeHistoryEntries.
MaxNewEntries == 1

\* The Recipe row before CreateRecipe and after a delete.
NoRow == [present |-> FALSE, Title |-> "", Ingredients |-> "nil", Instructions |-> "nil",
          ImagePrompt |-> "", history |-> 0, ImageURL |-> ""]

\* recipe.History: a nil pointer, or Entries (a nil or non-nil slice of n).
NilHistory == [isNil |-> TRUE, entriesNil |-> TRUE, n |-> 0]
EmptyHistory == [isNil |-> FALSE, entriesNil |-> FALSE, n |-> 0]

NoRecipe == [ID |-> 0, Title |-> "", Ingredients |-> "nil", Instructions |-> "nil",
             ImagePrompt |-> "", History |-> NilHistory]

\* The hashtag lists a generated recipe carries.
GeneratedHashtags ==
    {l \in HashtagLists : l = <<>> \/ (Len(l) = MaxTags /\ l[1] = <<"#", "A">>)}

\* recipeManager.RecipeDef after a successful GenerateRecipeWithChat: any
\* field may be missing from the model's answer.
RecipeDefs ==
    [Title : {"", "Soup"}, Ingredients : {"nil", "some"}, Instructions : {"nil", "some"},
     ImagePrompt : {"", "a bowl of soup"}, Hashtags : GeneratedHashtags]

NoDef == [Title |-> "", Ingredients |-> "nil", Instructions |-> "nil",
          ImagePrompt |-> "", Hashtags |-> <<>>]

NoManager == [RecipeDef |-> NoDef, RecipeHistoryEntries |-> 0, ImageBytes |-> ""]

ErrMissingFields == "missing required fields in Recipe"
ErrHistoryNil == "recipe history is nil"
NilDereference == "panic: nil pointer dereference"

\* Mutant: the image prompt is not among the required fields.
validateRecipeCoreFields_noImagePrompt(recipe) ==
    IF \/ recipe.Title = ""
       \/ recipe.Ingredients = "nil"
       \/ recipe.Instructions = "nil"
    THEN ErrMissingFields
    ELSE IF recipe.History.isNil
    THEN NilDereference
    ELSE IF recipe.History.entriesNil
    THEN ErrMissingFields
    ELSE ""

\* validateRecipeCoreFields: the || chain is evaluated left to right, and
\* recipe.History is dereferenced by its last operand.
validateRecipeCoreFields(recipe) ==
    IF \/ recipe.Title = ""
       \/ recipe.Ingredients = "nil"
       \/ recipe.Instructions = "nil"
       \/ recipe.ImagePrompt = ""
    THEN ErrMissingFields
    ELSE IF recipe.History.isNil
    THEN NilDereference
    ELSE IF recipe.History.entriesNil
    THEN ErrMissingFields
    ELSE ""

\* populateRecipeCoreFields: the recipe afterwards and the error returned.
\* append keeps a non-nil slice non-nil and a nil slice nil when nothing
\* is appended.
populateRecipeCoreFields(recipe, recipeManager) ==
    LET filled == [recipe EXCEPT
                      !.Title = recipeManager.RecipeDef.Title,
                      !.Ingredients = recipeManager.RecipeDef.Ingredients,
                      !.Instructions = recipeManager.RecipeDef.Instructions,
                      !.ImagePrompt = recipeManager.RecipeDef.ImagePrompt]
    IN  IF filled.History.isNil
        THEN [rec |-> filled, err |-> ErrHistoryNil]
        ELSE LET appended ==
                    [filled EXCEPT
                        !.History.n = @ + recipeManager.RecipeHistoryEntries,
                        !.History.entriesNil =
                            @ /\ recipeManager.RecipeHistoryEntries = 0]
             IN  [rec |-> appended, err |-> validateRecipeCoreFields(appended)]

\* Repo.CreateRecipe: the draft row of a new recipe.
RepoCreateRecipe == [NoRow EXCEPT !.present = TRUE]

\* The outcomes of Repo.UpdateRecipeDef.  For a row that a rollback has
\* deleted the interface fixes nothing: the call may fail, change nothing,
\* or write the row again.
UpdateOutcomes(row) == IF row.present THEN {"ok", "err"} ELSE {"ok", "err", "upsert"}

\* Repo.UpdateRecipeDef(recipe, newEntry): the core fields are persisted and
\* the new History entry is appended, in one call.
RepoUpdateRecipeDef(row, recipe, out) ==
    IF out = "err" \/ (out = "ok" /\ ~row.present)
    THEN row
    ELSE [row EXCEPT !.present = TRUE,
                     !.Title = recipe.Title,
                     !.Ingredients = recipe.Ingredients,
                     !.Instructions = recipe.Instructions,
                     !.ImagePrompt = recipe.ImagePrompt,
                     !.history = @ + 1]

\* The core fields are persisted without a History entry.
RepoUpdateRecipeCoreFields(row, recipe, out) ==
    IF out = "err" \/ (out = "ok" /\ ~row.present)
    THEN row
    ELSE [row EXCEPT !.present = TRUE,
                     !.Title = recipe.Title,
                     !.Ingredients = recipe.Ingredients,
                     !.Instructions = recipe.Instructions,
                     !.ImagePrompt = recipe.ImagePrompt]

\* Repo.UpdateRecipeImageURL(id, url).
RepoUpdateRecipeImageURL(row, url) ==
    IF row.present THEN [row EXCEPT !.ImageURL = url] ELSE row

RunIdle ==
    /\ recipeRow = NoRow
    /\ s3Image = FALSE
    /\ rec = NoRecipe
    /\ mgr = NoManager
    /\ supPc = "idle"
    /\ textPc = "idle"
    /\ textMsg = "none"
    /\ imagePc = "idle"
    /\ imageMsg = "none"
    /\ expired = FALSE
    /\ textBranch = "none"
    /\ imageBranch = "none"
    /\ deleteResult = "none"
    /\ log = <<>>
    /\ panicked = FALSE

supVars == <<supPc, textBranch, imageBranch, deleteResult>>

\* InitGenerateRecipeWithChat: the draft is created with an empty History,
\* unless the user has no Personalization or CreateRecipe fails.
InitGenerateRecipeWithChat ==
    /\ supPc = "idle"
    /\ \E personalizationID \in {0, 1}, out \in {"ok", "err"} :
          IF personalizationID = 0 \/ out = "err"
          THEN /\ supPc' = "rejected"
               /\ UNCHANGED <<recipeRow, rec>>
          ELSE /\ supPc' = "created"
               /\ recipeRow' = RepoCreateRecipe
               /\ rec' = [NoRecipe EXCEPT !.ID = RunRecipeID, !.History = EmptyHistory]
    /\ UNCHANGED <<s3Image, mgr, textPc, textMsg, imagePc, imageMsg, expired,
                   textBranch, imageBranch, deleteResult, log, panicked>>
    /\ UNCHANGED <<tagStoreVars, nonRunVars>>

\* Mutant: the image-stage goroutine is started together with the
\* text-stage goroutine, before the text-generation call.
FinishGenerateRecipeWithChat_startsImage ==
    /\ supPc = "created"
    /\ supPc' = "waitText"
    /\ textPc' = "gen"
    /\ imagePc' = "gen"
    /\ UNCHANGED <<recipeRow, s3Image, rec, mgr, textMsg, imageMsg, expired,
                   textBranch, imageBranch, deleteResult, log, panicked>>
    /\ UNCHANGED <<tagStoreVars, nonRunVars>>

\* FinishGenerateRecipeWithChat up to its first select: the context with
\* the 5-minute timeout and the two channels are made, and the text-stage
\* goroutine is started.
FinishGenerateRecipeWithChat ==
    /\ supPc = "created"
    /\ supPc' = "waitText"
    /\ textPc' = "gen"
    /\ UNCHANGED <<recipeRow, s3Image, rec, mgr, textMsg, imagePc, imageMsg, expired,
                   textBranch, imageBranch, deleteResult, log, panicked>>
    /\ UNCHANGED <<tagStoreVars, nonRunVars>>

\* The timer of the context fires while the supervisor is still running.
DeadlineExpires ==
    /\ supPc \in {"waitText", "rollback", "waitImage", "upload", "saveURL"}
    /\ ~expired
    /\ expired' = TRUE
    /\ UNCHANGED <<recipeRow, s3Image, rec, mgr, supPc, textPc, textMsg, imagePc,
                   imageMsg, textBranch, imageBranch, deleteResult, log, panicked>>
    /\ UNCHANGED <<tagStoreVars, nonRunVars>>

\* Text stage: recipeManager.GenerateRecipeWithChat() returns.  On an error
\* the goroutine goes to send it; on success it starts the image-stage
\* goroutine and goes on to populate the recipe.
TextGenerate ==
    /\ textPc = "gen"
    /\ \/ /\ textPc' = "send"
          /\ textMsg' = "err"
          /\ UNCHANGED <<mgr, imagePc>>
       \/ \E def \in RecipeDefs, entries \in 0..MaxNewEntries :
             /\ mgr' = [mgr EXCEPT !.RecipeDef = def, !.RecipeHistoryEntries = entries]
             /\ imagePc' = "gen"
             /\ textPc' = "populate"
             /\ UNCHANGED textMsg
    /\ UNCHANGED <<recipeRow, s3Image, rec, imageMsg, expired, supVars, log, panicked>>
    /\ UNCHANGED <<tagStoreVars, nonRunVars>>

\* Text stage: populateRecipeCoreFields(recipe, recipeManager).
TextPopulate ==
    /\ textPc = "populate"
    /\ LET r == populateRecipeCoreFields(rec, mgr) IN
          /\ rec' = r.rec
          /\ IF r.err = NilDereference
             THEN /\ panicked' = TRUE
                  /\ textPc' = "crashed"
                  /\ UNCHANGED textMsg
             ELSE IF r.err # ""
             THEN /\ textPc' = "send"
                  /\ textMsg' = "err"
                  /\ UNCHANGED panicked
             ELSE /\ textPc' = "update"
                  /\ UNCHANGED <<textMsg, panicked>>
    /\ UNCHANGED <<recipeRow, s3Image, mgr, imagePc, imageMsg, expired, supVars, log>>
    /\ UNCHANGED <<tagStoreVars, nonRunVars>>

\* Mutant: the text stage persists the core fields only, as the older
\* CompleteRecipeGeneration did with UpdateRecipeCoreFields.
TextUpdateRecipeDef_coreFieldsOnly ==
    /\ textPc = "update"
    /\ \E out \in UpdateOutcomes(recipeRow) :
          /\ recipeRow' = RepoUpdateRecipeCoreFields(recipeRow, rec, out)
          /\ IF out = "err"
             THEN textPc' = "send" /\ textMsg' = "err"
             ELSE textPc' = "tags" /\ UNCHANGED textMsg
    /\ log' = Append(log, "text:UpdateRecipeDef")
    /\ UNCHANGED <<s3Image, rec, mgr, imagePc, imageMsg, expired, supVars, panicked>>
    /\ UNCHANGED <<tagStoreVars, nonRunVars>>

\* Mutant: the error of UpdateRecipeDef is ignored and the text stage goes
\* on to the Tag Associator.
TextUpdateRecipeDef_ignoreError ==
    /\ textPc = "update"
    /\ \E out \in UpdateOutcomes(recipeRow) :
          recipeRow' = RepoUpdateRecipeDef(recipeRow, rec, out)
    /\ textPc' = "tags"
    /\ log' = Append(log, "text:UpdateRecipeDef")
    /\ UNCHANGED <<s3Image, rec, mgr, textMsg, imagePc, imageMsg, expired, supVars,
                   panicked>>
    /\ UNCHANGED <<tagStoreVars, nonRunVars>>

\* Text stage: s.Repo.UpdateRecipeDef(recipe, NextRecipeHistoryEntry).
TextUpdateRecipeDef ==
    /\ textPc = "update"
    /\ \E out \in UpdateOutcomes(recipeRow) :
          /\ recipeRow' = RepoUpdateRecipeDef(recipeRow, rec, out)
          /\ IF out = "err"
             THEN textPc' = "send" /\ textMsg' = "err"
             ELSE textPc' = "tags" /\ UNCHANGED textMsg
    /\ log' = Append(log, "text:UpdateRecipeDef")
    /\ UNCHANGED <<s3Image, rec, mgr, imagePc, imageMsg, expired, supVars, panicked>>
    /\ UNCHANGED <<tagStoreVars, nonRunVars>>

\* Mutant: an error of the Tag Associator is sent as the text stage's error.
TextAssociateTags_failsRun ==
    /\ textPc = "tags"
    /\ \E fail \in StoreFails(mgr.RecipeDef.Hashtags) :
          LET res == AssociateTagsWithRecipe(tagRows, recipeTags, rec.ID,
                                             mgr.RecipeDef.Hashtags, fail)
          IN  /\ tagRows' = res.rows
              /\ recipeTags' = res.assoc
              /\ textMsg' = IF res.err # "" THEN "err" ELSE "nil"
    /\ textPc' = "send"
    /\ log' = Append(log, "text:AssociateTagsWithRecipe")
    /\ UNCHANGED <<recipeRow, s3Image, rec, mgr, imagePc, imageMsg, expired, supVars,
                   panicked>>
    /\ UNCHANGED nonRunVars

\* Text stage: s.AssociateTagsWithRecipe(recipe, Hashtags); its error is
\* only logged, and nil is sent next.
TextAssociateTags ==
    /\ textPc = "tags"
    /\ \E fail \in StoreFails(mgr.RecipeDef.Hashtags) :
          LET res == AssociateTagsWithRecipe(tagRows, recipeTags, rec.ID,
                                             mgr.RecipeDef.Hashtags, fail)
          IN  /\ tagRows' = res.rows
              /\ recipeTags' = res.assoc
    /\ textPc' = "send"
    /\ textMsg' = "nil"
    /\ log' = Append(log, "text:AssociateTagsWithRecipe")
    /\ UNCHANGED <<recipeRow, s3Image, rec, mgr, imagePc, imageMsg, expired, supVars,
                   panicked>>
    /\ UNCHANGED nonRunVars

\* Mutant: the image stage writes an image URL to the row itself.
ImageGenerate_writesURL ==
    /\ imagePc = "gen"
    /\ \/ /\ imageMsg' = "err"
          /\ UNCHANGED <<mgr, recipeRow>>
       \/ /\ imageMsg' = "nil"
          /\ mgr' = [mgr EXCEPT !.ImageBytes = "png"]
          /\ recipeRow' = RepoUpdateRecipeImageURL(recipeRow, "s3://recipe-image")
    /\ imagePc' = "send"
    /\ UNCHANGED <<s3Image, rec, textPc, textMsg, expired, supVars, log, panicked>>
    /\ UNCHANGED <<tagStoreVars, nonRunVars>>

\* Image stage: recipeManager.GenerateRecipeImage() returns; the goroutine
\* goes to send its error or nil.
ImageGenerate ==
    /\ imagePc = "gen"
    /\ \/ /\ imageMsg' = "err"
          /\ UNCHANGED mgr
       \/ /\ imageMsg' = "nil"
          /\ mgr' = [mgr EXCEPT !.ImageBytes = "png"]
    /\ imagePc' = "send"
    /\ UNCHANGED <<recipeRow, s3Image, rec, textPc, textMsg, expired, supVars, log,
                   panicked>>
    /\ UNCHANGED <<tagStoreVars, nonRunVars>>

\* Mutant: the text stage does not return after sending an error, and goes
\* on to the Tag Associator and to a second send.
SupRecvText_noReturn ==
    /\ supPc = "waitText"
    /\ textPc = "send"
    /\ textPc' = IF textMsg # "nil" THEN "tags" ELSE "done"
    /\ IF textMsg # "nil"
       THEN textBranch' = "err" /\ supPc' = "rollback"
       ELSE textBranch' = "ok" /\ supPc' = "waitImage"
    /\ UNCHANGED <<recipeRow, s3Image, rec, mgr, textMsg, imagePc, imageMsg, expired,
                   imageBranch, deleteResult, log, panicked>>
    /\ UNCHANGED <<tagStoreVars, nonRunVars>>

\* Supervisor, first select, case err := <-recipeErrChan.  The channel is
\* unbuffered: the send and the receive are one step, and the text stage
\* returns after it.  An error leads to the rollback, nil to the second select.
SupRecvText ==
    /\ supPc = "waitText"
    /\ textPc = "send"
    /\ textPc' = "done"
    /\ IF textMsg # "nil"
       THEN textBranch' = "err" /\ supPc' = "rollback"
       ELSE textBranch' = "ok" /\ supPc' = "waitImage"
    /\ UNCHANGED <<recipeRow, s3Image, rec, mgr, textMsg, imagePc, imageMsg, expired,
                   imageBranch, deleteResult, log, panicked>>
    /\ UNCHANGED <<tagStoreVars, nonRunVars>>

\* Mutant: the deadline branch of the first select returns without the
\* rollback.
SupTextTimeout_noRollback ==
    /\ supPc = "waitText"
    /\ expired
    /\ textBranch' = "timeout"
    /\ supPc' = "done"
    /\ UNCHANGED <<recipeRow, s3Image, rec, mgr, textPc, textMsg, imagePc, imageMsg,
                   expired, imageBranch, deleteResult, log, panicked>>
    /\ UNCHANGED <<tagStoreVars, nonRunVars>>

\* Supervisor, first select, case <-ctx.Done(): the rollback.
SupTextTimeout ==
    /\ supPc = "waitText"
    /\ expired
    /\ textBranch' = "timeout"
    /\ supPc' = "rollback"
    /\ UNCHANGED <<recipeRow, s3Image, rec, mgr, textPc, textMsg, imagePc, imageMsg,
                   expired, imageBranch, deleteResult, log, panicked>>
    /\ UNCHANGED <<tagStoreVars, nonRunVars>>

\* Mutant: DeleteRecipe gives up when the image object cannot be removed,
\* before the row is deleted.
DeleteRecipe_imageFirst(row, image, repoOut, s3Out) ==
    IF s3Out = "err"
    THEN [row |-> row, image |-> image, result |-> "s3Err"]
    ELSE IF repoOut = "err"
    THEN [row |-> row, image |-> FALSE, result |-> "repoErr"]
    ELSE [row |-> NoRow, image |-> FALSE, result |-> "ok"]

\* DeleteRecipe: the row is deleted from the Draft Store, then the image
\* object from the Image Store; the first failure is returned.
DeleteRecipe(row, image, repoOut, s3Out) ==
    IF repoOut = "err"
    THEN [row |-> row, image |-> image, result |-> "repoErr"]
    ELSE IF s3Out = "err"
    THEN [row |-> NoRow, image |-> image, result |-> "s3Err"]
    ELSE [row |-> NoRow, image |-> FALSE, result |-> "ok"]

\* Mutant: a failed DeleteRecipe is tried again.
SupDeleteRecipe_retry ==
    /\ supPc = "rollback"
    /\ \E repoOut \in {"ok", "err"}, s3Out \in {"ok", "err"} :
          LET d == DeleteRecipe(recipeRow, s3Image, repoOut, s3Out) IN
              /\ recipeRow' = d.row
              /\ s3Image' = d.image
              /\ deleteResult' = d.result
              /\ supPc' = IF d.result = "ok" \/ deleteResult # "none"
                          THEN "done" ELSE "rollback"
    /\ log' = Append(log, "sup:DeleteRecipe")
    /\ UNCHANGED <<rec, mgr, textPc, textMsg, imagePc, imageMsg, expired, textBranch,
                   imageBranch, panicked>>
    /\ UNCHANGED <<tagStoreVars, nonRunVars>>

\* Supervisor: the rollback of both branches, s.DeleteRecipe(recipe.ID);
\* its error is logged and the run returns either way.
SupDeleteRecipe ==
    /\ supPc = "rollback"
    /\ \E repoOut \in {"ok", "err"}, s3Out \in {"ok", "err"} :
          LET d == DeleteRecipe(recipeRow, s3Image, repoOut, s3Out) IN
              /\ recipeRow' = d.row
              /\ s3Image' = d.image
              /\ deleteResult' = d.result
    /\ log' = Append(log, "sup:DeleteRecipe")
    /\ supPc' = "done"
    /\ UNCHANGED <<rec, mgr, textPc, textMsg, imagePc, imageMsg, expired, textBranch,
                   imageBranch, panicked>>
    /\ UNCHANGED <<tagStoreVars, nonRunVars>>

\* Mutant: an image-stage error is rolled back like a text-stage error.
SupRecvImage_rollback ==
    /\ supPc = "waitImage"
    /\ imagePc = "send"
    /\ imagePc' = "done"
    /\ IF imageMsg # "nil"
       THEN imageBranch' = "err" /\ supPc' = "rollback"
       ELSE imageBranch' = "ok" /\ supPc' = "upload"
    /\ UNCHANGED <<recipeRow, s3Image, rec, mgr, textPc, textMsg, imageMsg, expired,
                   textBranch, deleteResult, log, panicked>>
    /\ UNCHANGED <<tagStoreVars, nonRunVars>>

\* Supervisor, second select, case err := <-imageErrChan: an error ends
\* the run, nil leads to the upload.
SupRecvImage ==
    /\ supPc = "waitImage"
    /\ imagePc = "send"
    /\ imagePc' = "done"
    /\ IF imageMsg # "nil"
       THEN imageBranch' = "err" /\ supPc' = "done"
       ELSE imageBranch' = "ok" /\ supPc' = "upload"
    /\ UNCHANGED <<recipeRow, s3Image, rec, mgr, textPc, textMsg, imageMsg, expired,
                   textBranch, deleteResult, log, panicked>>
    /\ UNCHANGED <<tagStoreVars, nonRunVars>>

\* Mutant: the second select waits on the image channel alone.
SupImageTimeout_never ==
    /\ FALSE
    /\ UNCHANGED vars

\* Supervisor, second select, case <-ctx.Done(): the run ends.
SupImageTimeout ==
    /\ supPc = "waitImage"
    /\ expired
    /\ imageBranch' = "timeout"
    /\ supPc' = "done"
    /\ UNCHANGED <<recipeRow, s3Image, rec, mgr, textPc, textMsg, imagePc, imageMsg,
                   expired, textBranch, deleteResult, log, panicked>>
    /\ UNCHANGED <<tagStoreVars, nonRunVars>>

\* Mutant: the error of uploadRecipeImage is ignored and the image URL is
\* written all the same.
SupUploadImage_ignoreError ==
    /\ supPc = "upload"
    /\ supPc' = "saveURL"
    /\ \/ UNCHANGED s3Image
       \/ s3Image' = TRUE
    /\ log' = Append(log, "sup:UploadRecipeImageToS3")
    /\ UNCHANGED <<recipeRow, rec, mgr, textPc, textMsg, imagePc, imageMsg, expired,
                   textBranch, imageBranch, deleteResult, panicked>>
    /\ UNCHANGED <<tagStoreVars, nonRunVars>>

\* Supervisor: uploadRecipeImage(recipe.ID, recipeManager, cfg); a failure
\* ends the run.
SupUploadImage ==
    /\ supPc = "upload"
    /\ \/ /\ supPc' = "done"
          /\ UNCHANGED s3Image
       \/ /\ supPc' = "saveURL"
          /\ s3Image' = TRUE
    /\ log' = Append(log, "sup:UploadRecipeImageToS3")
    /\ UNCHANGED <<recipeRow, rec, mgr, textPc, textMsg, imagePc, imageMsg, expired,
                   textBranch, imageBranch, deleteResult, panicked>>
    /\ UNCHANGED <<tagStoreVars, nonRunVars>>

\* Supervisor: s.Repo.UpdateRecipeImageURL(recipe.ID, recipeImageURL); the
\* run ends whether or not the store call fails.
SupUpdateImageURL ==
    /\ supPc = "saveURL"
    /\ \/ UNCHANGED recipeRow
       \/ recipeRow' = RepoUpdateRecipeImageURL(recipeRow, "s3://recipe-image")
    /\ log' = Append(log, "sup:UpdateRecipeImageURL")
    /\ supPc' = "done"
    /\ UNCHANGED <<s3Image, rec, mgr, textPc, textMsg, imagePc, imageMsg, expired,
                   textBranch, imageBranch, deleteResult, panicked>>
    /\ UNCHANGED <<tagStoreVars, nonRunVars>>

\* The steps of the supervising task.
Supervisor ==
    \/ SupRecvText
    \/ SupTextTimeout
    \/ SupDeleteRecipe
    \/ SupRecvImage
    \/ SupImageTimeout
    \/ SupUploadImage
    \/ SupUpdateImageURL

RunNext ==
    \/ InitGenerateRecipeWithChat
    \/ FinishGenerateRecipeWithChat
    \/ DeadlineExpires
    \/ TextGenerate
    \/ TextPopulate
    \/ TextUpdateRecipeDef
    \/ TextAssociateTags
    \/ ImageGenerate
    \/ SupRecvText
    \/ SupTextTimeout
    \/ SupDeleteRecipe
    \/ SupRecvImage
    \/ SupImageTimeout
    \/ SupUploadImage
    \/ SupUpdateImageURL

-----------------------------------------------------------------------------
(***************************************************************************)
(* The older orchestrator CompleteRecipeGeneration                         *)
(* (internal/service/recipe.go): one goroutine does every step and sends   *)
(* true on the channel done; the caller waits for it or for the 5-minute   *)
(* deadline, and closes done afterwards.                                   *)
(***************************************************************************)

\* The shared fallback key and the values of the user's stored key: none, a
\* key that decrypts, and a value that does not decrypt.
PublicOpenAIKey == "sk-public"
UserKeys == {"", "enc(sk-user)", "garbled"}

\* util.DecryptOpenAIKey(encryptionKey, encrypted).
DecryptOpenAIKey(encrypted) ==
    IF encrypted = "enc(sk-user)"
    THEN [key |-> "sk-user", err |-> ""]
    ELSE [key |-> "", err |-> "cipher: message authentication failed"]

ErrDecrypt == "failed to decrypt API key"

\* Mutant: the shared key is used whatever the user has stored.
chooseAPIKey_alwaysPublic(cfgPublicOpenAIKey, encryptedOpenAIKey) ==
    [key |-> cfgPublicOpenAIKey, err |-> ""]

\* chooseAPIKey: (key, err) for the shared key and the user's stored key.
chooseAPIKey(cfgPublicOpenAIKey, encryptedOpenAIKey) ==
    IF encryptedOpenAIKey # ""
    THEN LET d == DecryptOpenAIKey(encryptedOpenAIKey) IN
         IF d.err # ""
         THEN [key |-> "", err |-> ErrDecrypt]
         ELSE [key |-> d.key, err |-> ""]
    ELSE [key |-> cfgPublicOpenAIKey, err |-> ""]

\* The store steps of the goroutine.
GenerationSteps == {"UpdateRecipeCoreFields", "AssociateTagsWithRecipe",
                    "UploadRecipeImageToS3", "UpdateRecipeImageURL"}

CompleteInit ==
    /\ userKey \in UserKeys
    /\ publicKey = PublicOpenAIKey
    /\ key = ""
    /\ keyUses = <<>>
    /\ chooseCalls = 0
    /\ gPc = "idle"
    /\ sPc = "idle"
    /\ doneClosed = FALSE
    /\ gExpired = FALSE
    /\ gSteps = {}
    /\ generationComplete = FALSE
    /\ gPanicked = FALSE

\* The state of this part while another part is explored.
CompleteIdle ==
    /\ CompleteInit
    /\ userKey = ""

\* CompleteRecipeGeneration up to its select: the context, the channel and
\* the goroutine are made.
CompleteRecipeGeneration ==
    /\ sPc = "idle"
    /\ sPc' = "select"
    /\ gPc' = "choose"
    /\ UNCHANGED <<userKey, publicKey, key, keyUses, chooseCalls, doneClosed, gExpired,
                   gSteps, generationComplete, gPanicked>>
    /\ UNCHANGED nonCompleteVars

\* The timer of the context fires before CompleteRecipeGeneration returns.
GDeadlineExpires ==
    /\ sPc \in {"select", "flag", "close"}
    /\ ~gExpired
    /\ gExpired' = TRUE
    /\ UNCHANGED <<userKey, publicKey, key, keyUses, chooseCalls, gPc, sPc, doneClosed,
                   gSteps, generationComplete, gPanicked>>
    /\ UNCHANGED nonCompleteVars

\* Goroutine: key, err := chooseAPIKey(s.Cfg, user); an error is logged and
\* the goroutine returns.
GChooseAPIKey ==
    /\ gPc = "choose"
    /\ LET r == chooseAPIKey(publicKey, userKey) IN
          /\ chooseCalls' = chooseCalls + 1
          /\ key' = r.key
          /\ gPc' = IF r.err # "" THEN "returned" ELSE "chat"
    /\ UNCHANGED <<userKey, publicKey, keyUses, sPc, doneClosed, gExpired, gSteps,
                   generationComplete, gPanicked>>
    /\ UNCHANGED nonCompleteVars

\* A step of the goroutine that calls a provider client made from key: on
\* an error the goroutine logs it and returns.
GClientStep(from, to) ==
    /\ gPc = from
    /\ keyUses' = Append(keyUses, key)
    /\ \/ gPc' = "returned"
       \/ gPc' = to
    /\ UNCHANGED <<userKey, publicKey, key, chooseCalls, sPc, doneClosed, gExpired,
                   gSteps, generationComplete, gPanicked>>
    /\ UNCHANGED nonCompleteVars

\* A store step of the goroutine: on an error the goroutine logs it and
\* returns.
GStoreStep(from, to, step) ==
    /\ gPc = from
    /\ \/ gPc' = "returned" /\ UNCHANGED gSteps
       \/ gPc' = to /\ gSteps' = gSteps \cup {step}
    /\ UNCHANGED <<userKey, publicKey, key, keyUses, chooseCalls, sPc, doneClosed,
                   gExpired, generationComplete, gPanicked>>
    /\ UNCHANGED nonCompleteVars

\* openai.NewOpenaiClient(key) and CreateRecipeChatCompletion.
GCreateRecipeChatCompletion == GClientStep("chat", "serialize")

\* The core fields are set; util.SerializeToJSONString may fail.
GSerialize ==
    /\ gPc = "serialize"
    /\ \/ gPc' = "returned"
       \/ gPc' = "core"
    /\ UNCHANGED <<userKey, publicKey, key, keyUses, chooseCalls, sPc, doneClosed,
                   gExpired, gSteps, generationComplete, gPanicked>>
    /\ UNCHANGED nonCompleteVars

GUpdateRecipeCoreFields == GStoreStep("core", "tags", "UpdateRecipeCoreFields")
GAssociateTagsWithRecipe == GStoreStep("tags", "image", "AssociateTagsWithRecipe")

\* openai.NewOpenaiClient(key) and CreateImage.
GCreateImage == GClientStep("image", "upload")

GUploadRecipeImageToS3 == GStoreStep("upload", "saveURL", "UploadRecipeImageToS3")
GUpdateRecipeImageURL == GStoreStep("saveURL", "send", "UpdateRecipeImageURL")

\* Goroutine "done <- true" and the select's "case success := <-done": the
\* channel is unbuffered, so the send and the receive are one step.
GSendDone ==
    /\ gPc = "send"
    /\ sPc = "select"
    /\ gPc' = "returned"
    /\ sPc' = "flag"
    /\ UNCHANGED <<userKey, publicKey, key, keyUses, chooseCalls, doneClosed, gExpired,
                   gSteps, generationComplete, gPanicked>>
    /\ UNCHANGED nonCompleteVars

\* Goroutine "done <- true" when done is closed, whether the goroutine
\* arrives at the send afterwards or was blocked in it: the send panics.
GSendOnClosed ==
    /\ gPc = "send"
    /\ doneClosed
    /\ gPc' = "panicked"
    /\ gPanicked' = TRUE
    /\ UNCHANGED <<userKey, publicKey, key, keyUses, chooseCalls, sPc, doneClosed,
                   gExpired, gSteps, generationComplete>>
    /\ UNCHANGED nonCompleteVars

\* The select's "case <-ctx.Done()": the timeout is logged.
GSelectTimeout ==
    /\ sPc = "select"
    /\ gExpired
    /\ sPc' = "close"
    /\ UNCHANGED <<userKey, publicKey, key, keyUses, chooseCalls, gPc, doneClosed,
                   gExpired, gSteps, generationComplete, gPanicked>>
    /\ UNCHANGED nonCompleteVars

\* Mutant: the flag is set in the deadline branch too.
GUpdateRecipeGenerationStatus_onTimeout ==
    /\ \/ sPc = "flag"
       \/ sPc = "select" /\ gExpired
    /\ \/ generationComplete' = TRUE
       \/ UNCHANGED generationComplete
    /\ sPc' = "close"
    /\ UNCHANGED <<userKey, publicKey, key, keyUses, chooseCalls, gPc, doneClosed,
                   gExpired, gSteps, gPanicked>>
    /\ UNCHANGED nonCompleteVars

\* After true was received: s.Repo.UpdateRecipeGenerationStatus(recipe,
\* true); its error is only logged.
GUpdateRecipeGenerationStatus ==
    /\ sPc = "flag"
    /\ \/ generationComplete' = TRUE
       \/ UNCHANGED generationComplete
    /\ sPc' = "close"
    /\ UNCHANGED <<userKey, publicKey, key, keyUses, chooseCalls, gPc, doneClosed,
                   gExpired, gSteps, gPanicked>>
    /\ UNCHANGED nonCompleteVars

\* close(done), and CompleteRecipeGeneration returns.
GCloseDone ==
    /\ sPc = "close"
    /\ doneClosed' = TRUE
    /\ sPc' = "done"
    /\ UNCHANGED <<userKey, publicKey, key, keyUses, chooseCalls, gPc, gExpired,
                   gSteps, generationComplete, gPanicked>>
    /\ UNCHANGED nonCompleteVars

CompleteNext ==
    \/ CompleteRecipeGeneration
    \/ GDeadlineExpires
    \/ GChooseAPIKey
    \/ GCreateRecipeChatCompletion
    \/ GSerialize
    \/ GUpdateRecipeCoreFields
    \/ GAssociateTagsWithRecipe
    \/ GCreateImage
    \/ GUploadRecipeImageToS3
    \/ GUpdateRecipeImageURL
    \/ GSendDone
    \/ GSendOnClosed
    \/ GSelectTimeout
    \/ GUpdateRecipeGenerationStatus
    \/ GCloseDone

-----------------------------------------------------------------------------
(***************************************************************************)
(* Per-IP rate limiter: RateLimitByIPMiddleware                            *)
(***************************************************************************)

\* Client addresses of the requests.
IPs == {"10.0.0.1", "10.0.0.2"}

\* Requests that can be inside the middleware at the same time.
Requests == {1, 2}

\* Last value of the clock.
MaxTime == 3

\* Number of limiterInfo values the map comes to hold over time.
MaxInfos == 3

\* Parameter expiration of the middleware, in units of the clock.
expiration == 1

NoInfo == 0

IdleRequest == [pc |-> "idle", ip |-> "", info |-> NoInfo]

LimiterInit ==
    /\ now = 0
    /\ limiters = {}
    /\ lastSeen = <<>>
    /\ reqs = [r \in Requests |-> IdleRequest]
    /\ sweepPc = "wait"
    /\ sweepLeft = {}
    /\ sweepKey = ""

\* limiters.Load(key): the entries of the map with this key.
Load(m, k) == {e \in m : e.key = k}

\* limiters.LoadOrStore(key, value), atomic: the existing value of the key
\* if there is one, else the given value, which is stored.
LoadOrStore(m, k, value) ==
    IF Load(m, k) # {}
    THEN [map |-> m, actual |-> (CHOOSE e \in Load(m, k) : TRUE).info, loaded |-> TRUE]
    ELSE [map |-> m \cup {[key |-> k, info |-> value]}, actual |-> value, loaded |-> FALSE]

\* limiters.Delete(key).
Delete(m, k) == {e \in m : e.key # k}

\* time.Now() advances.
ClockTick ==
    /\ now < MaxTime
    /\ now' = now + 1
    /\ UNCHANGED <<limiters, lastSeen, reqs, sweepPc, sweepLeft, sweepKey>>
    /\ UNCHANGED nonLimiterVars

\* Handler: limiters.LoadOrStore(ip, &limiterInfo{lastSeen: time.Now()}).
\* A key stored while a Range is running may or may not be visited by it.
RequestLoadOrStore(r, ip) ==
    /\ reqs[r].pc = "idle"
    /\ LET fresh == Len(lastSeen) + 1
           res   == LoadOrStore(limiters, ip, fresh)
       IN  /\ res.loaded \/ Len(lastSeen) < MaxInfos
           /\ limiters' = res.map
           /\ lastSeen' = IF res.loaded THEN lastSeen ELSE Append(lastSeen, now)
           /\ reqs' = [reqs EXCEPT ![r] = [pc |-> "loaded", ip |-> ip, info |-> res.actual]]
           /\ \/ UNCHANGED sweepLeft
              \/ /\ ~res.loaded
                 /\ sweepPc = "range"
                 /\ sweepLeft' = sweepLeft \cup {ip}
    /\ UNCHANGED <<now, sweepPc, sweepKey>>
    /\ UNCHANGED nonLimiterVars

\* Handler: info.lastSeen = time.Now(), a plain write with no lock.
RequestWriteLastSeen(r) ==
    /\ reqs[r].pc = "loaded"
    /\ lastSeen' = [lastSeen EXCEPT ![reqs[r].info] = now]
    /\ reqs' = [reqs EXCEPT ![r].pc = "seen"]
    /\ UNCHANGED <<now, limiters, sweepPc, sweepLeft, sweepKey>>
    /\ UNCHANGED nonLimiterVars

\* Handler: info.limiter.Allow(), then 429 or c.Next().
RequestAllow(r) ==
    /\ reqs[r].pc = "seen"
    /\ reqs' = [reqs EXCEPT ![r] = IdleRequest]
    /\ UNCHANGED <<now, limiters, lastSeen, sweepPc, sweepLeft, sweepKey>>
    /\ UNCHANGED nonLimiterVars

\* Cleanup goroutine: a tick of time.Tick(cleanupInterval) starts
\* limiters.Range over the keys of the map.
SweepTick ==
    /\ sweepPc = "wait"
    /\ sweepPc' = "range"
    /\ sweepLeft' = {e.key : e \in limiters}
    /\ UNCHANGED <<now, limiters, lastSeen, reqs, sweepKey>>
    /\ UNCHANGED nonLimiterVars

\* A write of lastSeen by a request is about to happen with no
\* synchronisation with the cleanup goroutine's read of the same field.
WriteInFlight(info) ==
    \E r \in Requests : reqs[r].pc = "loaded" /\ reqs[r].info = info

\* What the cleanup goroutine's read of lastSeen gives: the stored value,
\* or, racing with a write, any value.
ReadLastSeen(info) ==
    IF WriteInFlight(info) THEN 0..MaxTime ELSE {lastSeen[info]}

\* Cleanup goroutine, callback of Range for one key:
\* time.Since(value.lastSeen) > expiration.
SweepVisit(ip) ==
    /\ sweepPc = "range"
    /\ ip \in sweepLeft
    /\ sweepLeft' = sweepLeft \ {ip}
    /\ \/ /\ Load(limiters, ip) = {}
          /\ UNCHANGED <<sweepPc, sweepKey>>
       \/ \E e \in Load(limiters, ip) : \E seen \in ReadLastSeen(e.info) :
             IF now - seen > expiration
             THEN sweepPc' = "delete" /\ sweepKey' = ip
             ELSE UNCHANGED <<sweepPc, sweepKey>>
    /\ UNCHANGED <<now, limiters, lastSeen, reqs>>
    /\ UNCHANGED nonLimiterVars

\* Cleanup goroutine: limiters.Delete(key), after the check.
SweepDelete ==
    /\ sweepPc = "delete"
    /\ limiters' = Delete(limiters, sweepKey)
    /\ sweepPc' = "range"
    /\ sweepKey' = ""
    /\ UNCHANGED <<now, lastSeen, reqs, sweepLeft>>
    /\ UNCHANGED nonLimiterVars

\* Cleanup goroutine: Range has visited its keys; wait for the next tick.
SweepEnd ==
    /\ sweepPc = "range"
    /\ sweepLeft = {}
    /\ sweepPc' = "wait"
    /\ UNCHANGED <<now, limiters, lastSeen, reqs, sweepLeft, sweepKey>>
    /\ UNCHANGED nonLimiterVars

LimiterNext ==
    \/ ClockTick
    \/ \E r \in Requests, ip \in IPs : RequestLoadOrStore(r, ip)
    \/ \E r \in Requests : RequestWriteLastSeen(r)
    \/ \E r \in Requests : RequestAllow(r)
    \/ SweepTick
    \/ \E ip \in IPs : SweepVisit(ip)
    \/ SweepDelete
    \/ SweepEnd

-----------------------------------------------------------------------------
(***************************************************************************)
(* Soft delete and trash: DELETE /users/:id/recipes/:recipe_id and         *)
(* PUT /users/:id/trash/:recipe_id/collect                                 *)
(***************************************************************************)

\* The users of the store.
Users == {1, 2}

\* Values of the path parameter :id; "abc" is no number and no user.
PathIds == {"1", "2", "abc"}

\* strconv.ParseUint(id, 10, 32): the number, or 0 with an error.
ParseUint(id) ==
    CASE id = "1" -> [n |-> 1, err |-> FALSE]
      [] id = "2" -> [n |-> 2, err |-> FALSE]
      [] OTHER -> [n |-> 0, err |-> TRUE]

\* db.Where("id = ?", userID).First(&user): the user row with this id.
UserRows(id) == {u \in Users : ~ParseUint(id).err /\ ParseUint(id).n = u}

\* Column GeneratedByUserID of the recipe row.
GeneratedByUserID == 1

\* Days a deleted recipe stays in the trash: AddDate(0, 0, 30).
trashDays == 30

\* Last day of the clock.
MaxDay == 32

\* DeletedAt is nil.
NoDay == 0 - 1

NoResponse == [op |-> "none", id |-> "", code |-> 0]

TrashInit ==
    /\ today = 0
    /\ recipeDeletedAt = NoDay
    /\ collectedRecipes = {}
    /\ response = NoResponse

\* time.Now() advances by a day.
DayTick ==
    /\ today < MaxDay
    /\ today' = today + 1
    /\ UNCHANGED <<recipeDeletedAt, collectedRecipes, response>>
    /\ UNCHANGED nonTrashVars

\* t.AddDate(0, 0, 30).Before(time.Now()).
Expired(deletedAt, t) == deletedAt + trashDays < t

\* Handler of DELETE /users/:id/recipes/:recipe_id.  found: First finds the
\* recipe row; saved: db.Save writes it (its result is not looked at).
DeleteRecipeHandler(id, found, saved) ==
    /\ LET code == IF ParseUint(id).err THEN 400
                   ELSE IF ~found THEN 404
                   ELSE IF GeneratedByUserID # ParseUint(id).n THEN 403
                   ELSE 200
       IN  /\ response' = [op |-> "delete", id |-> id, code |-> code]
           /\ recipeDeletedAt' = IF code = 200 /\ saved THEN today ELSE recipeDeletedAt
    /\ UNCHANGED <<today, collectedRecipes>>
    /\ UNCHANGED nonTrashVars

\* Handler of PUT /users/:id/trash/:recipe_id/collect.  found: First finds
\* the recipe row; the user row is found when :id names a user; savedUser,
\* savedRecipe: the two db.Save calls write (their results are not looked
\* at).
CollectFromTrashHandler(id, found, savedUser, savedRecipe) ==
    /\ LET code == IF ~found THEN 404
                   ELSE IF recipeDeletedAt = NoDay \/ Expired(recipeDeletedAt, today)
                        THEN 403
                   ELSE IF UserRows(id) = {} THEN 404
                   ELSE 200
       IN  /\ response' = [op |-> "collect", id |-> id, code |-> code]
           /\ recipeDeletedAt' =
                 IF code = 200 /\ savedRecipe THEN NoDay ELSE recipeDeletedAt
           /\ collectedRecipes' =
                 IF code = 200 /\ savedUser THEN collectedRecipes \cup UserRows(id)
                 ELSE collectedRecipes
    /\ UNCHANGED today
    /\ UNCHANGED nonTrashVars

TrashNext ==
    \/ DayTick
    \/ \E id \in PathIds, found, saved \in BOOLEAN : DeleteRecipeHandler(id, found, saved)
    \/ \E id \in PathIds, found, savedUser, savedRecipe \in BOOLEAN :
          CollectFromTrashHandler(id, found, savedUser, savedRecipe)

-----------------------------------------------------------------------------
(***************************************************************************)
(* VerifyOpenAIKey                                                         *)
(***************************************************************************)

\* "const maxRetries = 3" of VerifyOpenAIKey.
verifyMaxRetries == 3

\* "const retryDelay = 10 * time.Second", in seconds.
retryDelay == 10

\* Values of the argument key.
VerifyKeys == {"", "sk-test"}

\* The provider's answers to the test call: success, an *openai.APIError
\* with a status, or another error (a transport failure).
VerifyAnswers ==
    {NoErr, [api |-> FALSE, status |-> 0 - 1]}
        \cup {[api |-> TRUE, status |-> st] : st \in {401, 429, 500, 400, 403, 503}}

NoVerdict == [valid |-> FALSE, err |-> "", returned |-> FALSE]

ErrVerify == "failed to verify OpenAI key after multiple attempts"

VerifyInit ==
    /\ vKey = ""
    /\ vPc = "idle"
    /\ attempt = 0
    /\ vAnswers = <<>>
    /\ vSlept = 0
    /\ vResult = NoVerdict

\* One pass of the loop body for the answer of CreateCompletion: the
\* returned pair, or no return and the seconds slept before the next pass.
VerifyAttemptOutcome(answer) ==
    IF answer.api
    THEN CASE answer.status = 401 ->
                [return |-> TRUE, valid |-> FALSE, err |-> "", sleep |-> 0]
           [] answer.status = 429 ->
                [return |-> FALSE, valid |-> FALSE, err |-> "", sleep |-> retryDelay]
           [] answer.status = 500 ->
                [return |-> FALSE, valid |-> FALSE, err |-> "", sleep |-> 0]
           [] OTHER ->
                [return |-> TRUE, valid |-> TRUE, err |-> "api error", sleep |-> 0]
    ELSE IF answer = NoErr
    THEN [return |-> TRUE, valid |-> TRUE, err |-> "", sleep |-> 0]
    ELSE [return |-> FALSE, valid |-> FALSE, err |-> "", sleep |-> 0]

\* VerifyOpenAIKey(key), up to the loop: an empty key returns (false, nil).
VerifyOpenAIKey(k) ==
    /\ vPc = "idle"
    /\ vKey' = k
    /\ IF k = ""
       THEN /\ vPc' = "done"
            /\ vResult' = [valid |-> FALSE, err |-> "", returned |-> TRUE]
       ELSE /\ vPc' = "loop"
            /\ UNCHANGED vResult
    /\ UNCHANGED <<attempt, vAnswers, vSlept>>
    /\ UNCHANGED nonVerifyVars

\* One pass of "for attempt := 0; attempt < maxRetries; attempt++".
VerifyAttempt(answer) ==
    /\ vPc = "loop"
    /\ attempt < verifyMaxRetries
    /\ vAnswers' = Append(vAnswers, answer)
    /\ LET out == VerifyAttemptOutcome(answer)
       IN  /\ vSlept' = vSlept + out.sleep
           /\ IF out.return
              THEN /\ vPc' = "done"
                   /\ vResult' = [valid |-> out.valid, err |-> out.err, returned |-> TRUE]
                   /\ UNCHANGED attempt
              ELSE /\ attempt' = attempt + 1
                   /\ UNCHANGED <<vPc, vResult>>
    /\ UNCHANGED vKey
    /\ UNCHANGED nonVerifyVars

\* After the loop: return false, errors.New("failed to verify ...").
VerifyExhausted ==
    /\ vPc = "loop"
    /\ attempt >= verifyMaxRetries
    /\ vPc' = "done"
    /\ vResult' = [valid |-> FALSE, err |-> ErrVerify, returned |-> TRUE]
    /\ UNCHANGED <<vKey, attempt, vAnswers, vSlept>>
    /\ UNCHANGED nonVerifyVars

VerifyNext ==
    \/ \E k \in VerifyKeys : VerifyOpenAIKey(k)
    \/ \E answer \in VerifyAnswers : VerifyAttempt(answer)
    \/ VerifyExhausted

-----------------------------------------------------------------------------
(***************************************************************************)
(* Specifications                                                          *)
(***************************************************************************)

\* The parts outside the generation core, before anything runs in them.
PeripheralIdle == CompleteIdle /\ LimiterInit /\ TrashInit /\ VerifyInit

\* The Generation Client alone.
InitClient == ClientInit /\ CleanIdle /\ TagsInit /\ JobsInit /\ RunIdle /\ PeripheralIdle
SpecClient == InitClient /\ [][ClientNext]_vars

\* cleanHashtag alone.
InitClean == CleanInit /\ ClientInit /\ TagsInit /\ JobsInit /\ RunIdle /\ PeripheralIdle
SpecClean == InitClean /\ [][CleanNext]_vars

\* Sequential AssociateTagsWithRecipe calls on the tag tables.
InitTags == TagsInit /\ ClientInit /\ CleanIdle /\ JobsInit /\ RunIdle /\ PeripheralIdle
SpecTags == InitTags /\ [][TagsNext]_vars

\* AssociateTagsWithRecipe calls of two runs, interleaved at their store calls.
InitTagRace == JobsInit /\ TagsInit /\ ClientInit /\ CleanIdle /\ RunIdle /\ PeripheralIdle
SpecTagRace == InitTagRace /\ [][JobsNext]_vars

\* One run of the older orchestrator CompleteRecipeGeneration, for each
\* value of the user's stored key.
InitComplete ==
    /\ CompleteInit /\ LimiterInit /\ TrashInit /\ VerifyInit
    /\ ClientInit /\ CleanIdle /\ TagsInit /\ JobsInit /\ RunIdle
SpecComplete == InitComplete /\ [][CompleteNext]_vars

\* The rate limiter middleware: two requests and the cleanup goroutine.
InitLimiter ==
    /\ LimiterInit /\ CompleteIdle /\ TrashInit /\ VerifyInit
    /\ ClientInit /\ CleanIdle /\ TagsInit /\ JobsInit /\ RunIdle
SpecLimiter == InitLimiter /\ [][LimiterNext]_vars

\* The two trash handlers on one recipe, and the clock.
InitTrash ==
    /\ TrashInit /\ CompleteIdle /\ LimiterInit /\ VerifyInit
    /\ ClientInit /\ CleanIdle /\ TagsInit /\ JobsInit /\ RunIdle
SpecTrash == InitTrash /\ [][TrashNext]_vars

\* One call of VerifyOpenAIKey.
InitVerify ==
    /\ VerifyInit /\ CompleteIdle /\ LimiterInit /\ TrashInit
    /\ ClientInit /\ CleanIdle /\ TagsInit /\ JobsInit /\ RunIdle
SpecVerify == InitVerify /\ [][VerifyNext]_vars

\* One generation run, from the creation of the draft on.
Init == RunIdle /\ TagsInit /\ JobsInit /\ ClientInit /\ CleanIdle /\ PeripheralIdle
Spec == Init /\ [][RunNext]_vars

\* The run with its scheduling: the supervising goroutine is scheduled
\* whenever it can take a step (its store calls return), and the timer of
\* the context fires.  Nothing is assumed of the two stage goroutines,
\* whose provider calls may never return.
SpecLive == Init /\ [][RunNext]_vars /\ WF_vars(Supervisor) /\ WF_vars(DeadlineExpires)

-----------------------------------------------------------------------------
(***************************************************************************)
(* Generation Client: properties                                           *)
(***************************************************************************)

\* The statuses the client treats as transient: 429 (rate limit / engine
\* overload) and 500 (server error).
IsTransient(a) == a.err.api /\ a.err.status \in {429, 500}
IsSuccess(a) == a.err = NoErr
IsAuthError(a) == a.err.api /\ a.err.status = 401
IsUnrecognized(a) == ~IsSuccess(a) /\ ~IsTransient(a) /\ ~IsAuthError(a)

AllTransient(s) == \A j \in DOMAIN s : IsTransient(s[j])
Front(s) == SubSeq(s, 1, Len(s) - 1)

C5_NoRetryFailsImmediately ==
    \A j \in DOMAIN resps :
        (IsAuthError(resps[j]) \/ IsUnrecognized(resps[j])) =>
            /\ j = Len(resps)
            /\ attempts = j
            /\ cpc = "done"
            /\ sleeps = backoffSeconds * (j - 1)
            /\ cresult.err = (IF IsAuthError(resps[j]) THEN ErrAuth ELSE ErrUnhandled)

\* C5 witness: an authorization error on the first attempt, and one on a
\* later attempt after a backoff.
C5_Witness ==
    /\ cpc = "done"
    /\ Len(resps) = 3
    /\ IsAuthError(resps[3])
    /\ sleeps = 2 * backoffSeconds

-----------------------------------------------------------------------------
(***************************************************************************)
(* Tags: properties                                                        *)
(***************************************************************************)

IsLowerCase(h) == \A j \in DOMAIN h : h[j] \notin {"A", "B"}
HasNoSpace(h) == \A j \in DOMAIN h : h[j] # " "
HasNoLeadingHash(h) == h = <<>> \/ Head(h) # "#"

\* C7: the result of cleanHashtag is lowercase, contains no space and does
\* not begin with '#'; and two raw tags that differ only in letter case, in
\* space characters and in a leading '#' are cleaned to the same string.
C7_CleanHashtagNormalForm ==
    /\ hashtagOut.set =>
          /\ IsLowerCase(hashtagOut.val)
          /\ HasNoSpace(hashtagOut.val)
          /\ HasNoLeadingHash(hashtagOut.val)
    /\ variantOut.set => variantOut.val = hashtagOut.val

NoDuplicateTagRows ==
    \A j, k \in DOMAIN tagRows : tagRows[j] = tagRows[k] => j = k

\* C8: sequential AssociateTagsWithRecipe calls keep one Tag row per
\* normalized text, every tag of a successful call has its row, and a
\* successful call that repeats the previous successful call (same recipe,
\* lists that normalize to the same tags) changes neither the tag rows nor
\* the recipe's association.
C8_AssociateIdempotent ==
    /\ [](/\ NoDuplicateTagRows
          /\ prevCall.ok =>
                \A t \in prevCall.tags :
                    Cardinality({j \in DOMAIN tagRows : tagRows[j] = t}) = 1)
    /\ [][repeated' => (tagRows' = tagRows /\ recipeTags' = recipeTags)]_vars

\* C8 witness: a successful call with two different tags was repeated
\* successfully, and the recipe is associated with exactly those two tags.
C8_Witness ==
    /\ repeated
    /\ Cardinality(prevCall.tags) = 2
    /\ Len(tagRows) = 2
    /\ recipeTags[prevCall.recipe] = {1, 2}

-----------------------------------------------------------------------------
(***************************************************************************)
(* The generation run: properties                                          *)
(***************************************************************************)

CountOps(op) == Cardinality({j \in DOMAIN log : log[j] = op})

\* The text stage called UpdateRecipeDef after the supervisor's DeleteRecipe.
UpdateAfterDelete ==
    \E j, k \in DOMAIN log :
        j < k /\ log[j] = "sup:DeleteRecipe" /\ log[k] = "text:UpdateRecipeDef"

\* The supervisor took the rollback path in its first select.
RolledBack == textBranch \in {"err", "timeout"}

\* No task of the run can take another step: the supervisor has returned
\* and each stage has returned, was never started, or is blocked sending.
TasksStopped ==
    /\ supPc = "done"
    /\ textPc \in {"send", "done", "crashed"}
    /\ imagePc \in {"idle", "send", "done"}

\* The text fields of the row are populated.
Populated(row) ==
    /\ row.Title # ""
    /\ row.Ingredients # "nil"
    /\ row.Instructions # "nil"
    /\ row.ImagePrompt # ""

C2_ImageFailureKeepsText ==
    (supPc = "done" /\ textBranch = "ok" /\ imageBranch \in {"err", "timeout"}) =>
        /\ recipeRow.present
        /\ Populated(recipeRow)
        /\ recipeRow.ImageURL = ""
        /\ ~s3Image
        /\ deleteResult = "none"
        /\ \A j \in DOMAIN log :
              log[j] \notin {"sup:DeleteRecipe", "sup:UploadRecipeImageToS3",
                             "sup:UpdateRecipeImageURL"}

\* C2 witness: text succeeded, the image stage reported an error.
C2_Witness ==
    /\ supPc = "done"
    /\ textBranch = "ok"
    /\ imageBranch = "err"
    /\ recipeRow.present
    /\ recipeRow.Title = "Soup"
    /\ recipeRow.ImageURL = ""

\* C3: in every state a persisted Recipe with a non-empty title has at
\* least one History entry.
C3_TitleImpliesHistory ==
    (recipeRow.present /\ recipeRow.Title # "") => recipeRow.history >= 1

\* C3 witness: the text stage has persisted a title, with its entry.
C3_Witness ==
    /\ recipeRow.present
    /\ recipeRow.Title = "Soup"
    /\ recipeRow.history = 1
    /\ textPc = "tags"

\* C9 as stated: no task panics, and every run that ends without an image
\* URL ends with the recipe deleted or with the recipe present and missing
\* only its image.
C9_NoPanicDeletedOrMissingImage ==
    /\ ~panicked
    /\ (supPc = "done" /\ recipeRow.ImageURL = "") =>
          \/ ~recipeRow.present
          \/ Populated(recipeRow)

\* C9 as amended: no task panics, and every run that ends without an image
\* URL ends with the recipe deleted, or present and missing only its image,
\* or, when the Draft Store delete of the rollback failed, with the record
\* left in the store as it was.
C9_NoPanicDeletedMissingImageOrDeleteFailed ==
    /\ ~panicked
    /\ textPc # "crashed"
    /\ (supPc = "done" /\ recipeRow.ImageURL = "") =>
          \/ ~recipeRow.present
          \/ Populated(recipeRow)
          \/ (RolledBack /\ deleteResult = "repoErr")

\* C9 witness: the text stage failed, the delete of the rollback failed,
\* and the run ended with the empty draft still in the store.
C9_Witness ==
    /\ supPc = "done"
    /\ textBranch = "err"
    /\ deleteResult = "repoErr"
    /\ recipeRow = RepoCreateRecipe
    /\ ~panicked

\* C10: the one deadline of the run governs both waits: once it has
\* expired the supervising task terminates, also when the text stage or the
\* image stage never sends its completion signal.
C10_SupervisorTerminates == expired ~> (supPc = "done")

\* C10 witness: the supervisor returned through the deadline branch of the
\* second wait while the image stage was still generating.
C10_Witness ==
    /\ expired
    /\ supPc = "done"
    /\ textBranch = "ok"
    /\ imageBranch = "timeout"
    /\ imagePc = "gen"

\* C11: once the supervisor has taken the rollback path and its DeleteRecipe
\* has removed the recipe, no task of the run performs another store write:
\* the delete is the last store operation of the run.
C11_NoWriteAfterRollbackDelete ==
    (RolledBack /\ deleteResult = "ok") =>
        \A j \in DOMAIN log : log[j] = "sup:DeleteRecipe" => j = Len(log)

\* C12 as stated: during a run the Recipe (the in-memory record rec and its
\* row) is written only in steps of the supervising task.
C12_OnlySupervisorWritesRecipe ==
    [][(rec' # rec \/ recipeRow' # recipeRow) => supPc' # supPc]_vars

\* C12 as amended: the image-stage task never writes the Recipe; the
\* in-memory record is written by InitGenerateRecipeWithChat and by the text
\* stage's populateRecipeCoreFields only; the row is written by CreateRecipe,
\* by the text stage's UpdateRecipeDef, and by the supervisor's DeleteRecipe
\* and UpdateRecipeImageURL only; and the supervisor's writes of the second
\* wait and of the rollback after a text-stage error come after the text
\* stage has returned.
C12_RecipeWriters ==
    /\ [][(imagePc' # imagePc /\ textPc' = textPc /\ supPc' = supPc)
             => UNCHANGED <<rec, recipeRow>>]_vars
    /\ [][rec' # rec =>
             \/ supPc = "idle" /\ supPc' # supPc
             \/ textPc = "populate" /\ textPc' # textPc]_vars
    /\ [][recipeRow' # recipeRow =>
             \/ supPc \in {"idle", "rollback", "saveURL"} /\ supPc' # supPc
             \/ textPc = "update" /\ textPc' # textPc]_vars
    /\ []((supPc \in {"waitImage", "upload", "saveURL"} \/ textBranch \in {"ok", "err"})
             => textPc = "done")

\* C12 witness: the text stage has written the record and its row, and the
\* supervisor has then written the image URL.
C12_Witness ==
    /\ supPc = "done"
    /\ rec.Title = "Soup"
    /\ recipeRow.Title = "Soup"
    /\ recipeRow.ImageURL # ""
    /\ log = <<"text:UpdateRecipeDef", "text:AssociateTagsWithRecipe",
               "sup:UploadRecipeImageToS3", "sup:UpdateRecipeImageURL">>

-----------------------------------------------------------------------------
(***************************************************************************)
(* Concurrent tag association: properties                                  *)
(***************************************************************************)

\* Number of rows of the tags table that hold this normalized text.
RowsOf(name) == Cardinality({j \in DOMAIN tagRows : tagRows[j] = name})

\* C13 as stated: in every reachable state no two Tag rows hold the same
\* normalized text, also when two runs associate tags concurrently.
C13_NoDuplicateTagRowsConcurrent ==
    \A j, k \in DOMAIN tagRows : tagRows[j] = tagRows[k] => j = k

\* C13 as amended: calls that do not overlap never create a second row for
\* a normalized text; calls that overlap create at most one row per call
\* for it; every association points at existing rows, and no call crashes.
C13_DuplicatesOnlyWhenRaced ==
    /\ ~raced => \A j, k \in DOMAIN tagRows : tagRows[j] = tagRows[k] => j = k
    /\ \A j \in DOMAIN tagRows : RowsOf(tagRows[j]) <= Cardinality(Jobs)
    /\ \A r \in Jobs : recipeTags[r] \subseteq DOMAIN tagRows
    /\ \A r \in Jobs :
          jobs[r].pc = "done" =>
              jobs[r].err \in {"", ErrFindTag, ErrCreateTag, ErrUpdateTags}

\* C13 witness: two overlapping calls both missed the tag "a" and both
\* created it; each recipe is associated with its own row.
C13_Witness ==
    /\ raced
    /\ tagRows = << <<"a">>, <<"a">> >>
    /\ \A r \in Jobs : jobs[r].pc = "done" /\ jobs[r].err = ""
    /\ recipeTags[1] # recipeTags[2]

-----------------------------------------------------------------------------
(***************************************************************************)
(* Generation Client: the decision per provider error                      *)
(***************************************************************************)

\* The provider errors the retry policy calls transient: rate-limited (429)
\* and every server-side 5xx status.
IsRetryClass(a) ==
    a.err.api /\ (a.err.status = 429 \/ a.err.status \in 500..599)

\* C14: the decision taken for a provider error is a function of its HTTP
\* status alone: every 429 and every 5xx answer was followed by the fixed
\* 2 s backoff and a retry, and a call ended by any other error slept for no
\* other answer and returned "no retry" for a 401, "unhandled" otherwise.
C14_DecisionByStatus ==
    /\ sleeps = backoffSeconds * Cardinality({j \in DOMAIN resps : IsRetryClass(resps[j])})
    /\ \A j \in DOMAIN resps :
          (resps[j].err # NoErr /\ ~IsRetryClass(resps[j])) =>
              /\ j = Len(resps)
              /\ cpc = "done"
              /\ cresult.err = IF IsAuthError(resps[j]) THEN ErrAuth ELSE ErrUnhandled

-----------------------------------------------------------------------------
(***************************************************************************)
(* The generation run: ordering of the stages                              *)
(***************************************************************************)

\* C15: the image stage is started only in the step in which the
\* text-generation call returns success, which is before the text stage
\* populates and persists the Recipe; in the step in which the call returns
\* an error the image stage is not started, and as the text stage never
\* returns to the call, it is never started in that run.
C15_ImageStartsAfterTextSuccess ==
    /\ [][(imagePc = "idle" /\ imagePc' # "idle")
             => (textPc = "gen" /\ textPc' = "populate" /\ imagePc' = "gen"
                 /\ CountOps("text:UpdateRecipeDef") = 0 /\ rec.Title = "")]_vars
    /\ [][(textPc = "gen" /\ textPc' # "gen")
             => \/ textPc' = "populate" /\ imagePc' = "gen"
                \/ textPc' = "send" /\ textMsg' = "err" /\ imagePc' = "idle"]_vars
    /\ [][(textPc \notin {"idle", "gen"}) => (textPc' \notin {"idle", "gen"})]_vars
    /\ [](textPc \in {"populate", "update", "tags"} => imagePc # "idle")
    /\ [](imagePc # "idle" => textPc \notin {"idle", "gen"})

\* C15 witness: the image stage is generating and the text stage has not
\* yet populated the Recipe.
C15_Witness ==
    /\ textPc = "populate"
    /\ imagePc = "gen"
    /\ mgr.RecipeDef.Title = "Soup"
    /\ rec.Title = ""

\* C16: in the text stage the Recipe is populated, its History appended and
\* UpdateRecipeDef has returned before the Tag Associator is called and
\* before the completion signal exists; an UpdateRecipeDef that fails is
\* followed by the error signal, never by the Tag Associator or by nil.
C16_PersistBeforeTagsAndSignal ==
    /\ []((textPc = "tags" \/ CountOps("text:AssociateTagsWithRecipe") > 0 \/ textMsg = "nil")
             => /\ validateRecipeCoreFields(rec) = ""
                /\ CountOps("text:UpdateRecipeDef") = 1
                /\ \A j, k \in DOMAIN log :
                      (log[j] = "text:UpdateRecipeDef"
                          /\ log[k] = "text:AssociateTagsWithRecipe") => j < k)
    /\ [](textMsg = "nil"
             => (textPc \in {"send", "done"} /\ CountOps("text:AssociateTagsWithRecipe") = 1))
    /\ [][(textPc = "update" /\ textPc' = "tags" /\ recipeRow.present)
             => (Populated(recipeRow') /\ recipeRow'.history = recipeRow.history + 1)]_vars
    /\ [][(textPc = "update" /\ textPc' # "update" /\ recipeRow.present
              /\ recipeRow' = recipeRow)
             => (textPc' = "send" /\ textMsg' = "err")]_vars

\* C16 witness: the text stage is about to send nil, after UpdateRecipeDef
\* and then the Tag Associator.
C16_Witness ==
    /\ supPc = "waitText"
    /\ textPc = "send"
    /\ textMsg = "nil"
    /\ log = <<"text:UpdateRecipeDef", "text:AssociateTagsWithRecipe">>
    /\ recipeRow.Title = "Soup"
    /\ recipeRow.history = 1

\* The position of the first occurrence of a store operation in the log, 0
\* when it did not happen.
FirstOp(op) ==
    IF CountOps(op) = 0 THEN 0
    ELSE CHOOSE j \in DOMAIN log : log[j] = op /\ \A k \in DOMAIN log : log[k] = op => j <= k

\* The supervisor's image steps in their order: the image wait follows a
\* received text success; the upload follows a received image success; the
\* image URL is written only after a successful upload, and a failed upload
\* leaves the URL null.
UploadAfterBothSignals ==
    /\ (imageBranch # "none" \/ supPc \in {"waitImage", "upload", "saveURL"})
          => (textBranch = "ok" /\ textMsg = "nil" /\ textPc = "done")
    /\ (supPc \in {"upload", "saveURL"} \/ CountOps("sup:UploadRecipeImageToS3") > 0)
          => (textBranch = "ok" /\ imageBranch = "ok" /\ imageMsg = "nil"
              /\ imagePc = "done")
    /\ CountOps("sup:UploadRecipeImageToS3") <= 1
    /\ (supPc = "saveURL" \/ CountOps("sup:UpdateRecipeImageURL") > 0 \/ recipeRow.ImageURL # "")
          => (s3Image /\ CountOps("sup:UploadRecipeImageToS3") = 1)
    /\ CountOps("sup:UpdateRecipeImageURL") > 0
          => FirstOp("sup:UploadRecipeImageToS3") < FirstOp("sup:UpdateRecipeImageURL")
    /\ (supPc = "done" /\ CountOps("sup:UploadRecipeImageToS3") = 1 /\ ~s3Image)
          => (recipeRow.ImageURL = "" /\ CountOps("sup:UpdateRecipeImageURL") = 0)

\* C17 as stated: the supervisor waits for the text signal, then for the
\* image signal; an upload happens only after a text success and then an
\* image success, both received before the deadline; the URL is written
\* only after a successful upload.
C17_UploadOnlyBeforeDeadline ==
    /\ [](UploadAfterBothSignals)
    /\ [][((textBranch = "none" /\ textBranch' = "ok")
              \/ (imageBranch = "none" /\ imageBranch' = "ok")) => ~expired]_vars

\* C17 as amended: as stated, except that the two successes are received
\* in the signal branches of the two selects, which the supervisor can
\* still take when the deadline has already expired and the signal is
\* ready too; it never uploads after taking a deadline branch.
C17_UploadAfterBothSignalsReceived ==
    /\ [](UploadAfterBothSignals)
    /\ []((textBranch = "timeout" \/ imageBranch = "timeout")
             => (CountOps("sup:UploadRecipeImageToS3") = 0 /\ recipeRow.ImageURL = ""))
    /\ [][(supPc = "waitText" /\ supPc' # "waitText")
             => supPc' \in {"rollback", "waitImage"}]_vars
    /\ [][supPc' = "upload" => (supPc \in {"waitImage", "upload"})]_vars

\* C17 witness: both successes were received, the second after the deadline
\* had expired, and the image was uploaded and its URL written.
C17_Witness ==
    /\ supPc = "done"
    /\ expired
    /\ textBranch = "ok"
    /\ imageBranch = "ok"
    /\ s3Image
    /\ recipeRow.ImageURL # ""

-----------------------------------------------------------------------------
(***************************************************************************)
(* The generation run: error handling                                      *)
(***************************************************************************)

\* A required field of the in-memory Recipe is missing.
MissingRequired(recipe) ==
    \/ recipe.Title = ""
    \/ recipe.Ingredients = "nil"
    \/ recipe.Instructions = "nil"
    \/ recipe.ImagePrompt = ""
    \/ recipe.History.isNil
    \/ recipe.History.entriesNil

\* The Recipes populateRecipeCoreFields may be given: a draft, with a
\* History, with a History whose Entries are nil, or without a History.
DraftRecipes ==
    {[NoRecipe EXCEPT !.ID = RunRecipeID, !.History = h] :
        h \in {EmptyHistory, NilHistory, [isNil |-> FALSE, entriesNil |-> TRUE, n |-> 0]}}

\* The RecipeManagers populateRecipeCoreFields may be given.
Managers ==
    {[NoManager EXCEPT !.RecipeDef = def, !.RecipeHistoryEntries = entries] :
        def \in {d \in RecipeDefs : d.Hashtags = <<>>}, entries \in 0..MaxNewEntries}

\* C18: when a required field is missing after population the text stage
\* reports an error without calling UpdateRecipeDef or the Tag Associator,
\* and a supervisor that has returned has rolled the run back with one
\* DeleteRecipe call; populateRecipeCoreFields returns an error, and never
\* panics, exactly for the Recipes with a missing field.
C18_ValidationErrorRollsBack ==
    /\ (MissingRequired(rec) /\ textPc \notin {"idle", "gen", "populate"})
          => /\ textPc \in {"send", "done"}
             /\ textMsg = "err"
             /\ CountOps("text:UpdateRecipeDef") = 0
             /\ CountOps("text:AssociateTagsWithRecipe") = 0
             /\ textBranch # "ok"
             /\ supPc = "done" => (CountOps("sup:DeleteRecipe") = 1 /\ deleteResult # "none")
    /\ CountOps("text:UpdateRecipeDef") > 0 => ~MissingRequired(rec)
    /\ \A recipe \in DraftRecipes, recipeManager \in Managers :
          LET r == populateRecipeCoreFields(recipe, recipeManager) IN
              /\ r.err \in {"", ErrMissingFields, ErrHistoryNil}
              /\ (r.err # "") <=> MissingRequired(r.rec)

\* C18 witness: the generated recipe had no image prompt; the text stage
\* reported the error and the supervisor deleted the recipe.
C18_Witness ==
    /\ supPc = "done"
    /\ textBranch = "err"
    /\ textPc = "done"
    /\ rec.Title = "Soup"
    /\ rec.Ingredients = "some"
    /\ rec.Instructions = "some"
    /\ rec.ImagePrompt = ""
    /\ log = <<"sup:DeleteRecipe">>
    /\ deleteResult = "ok"
    /\ ~recipeRow.present

\* The store operations of the supervising task.
SupOps == {"sup:DeleteRecipe", "sup:UploadRecipeImageToS3", "sup:UpdateRecipeImageURL"}

\* C19: when the DeleteRecipe of the rollback fails, in the Draft Store or
\* in the Image Store, the supervisor has returned: the delete was called
\* once, nothing panicked, the supervisor made no other store operation,
\* and it takes no further step.
C19_DeleteFailureDoesNotEscalate ==
    /\ [](deleteResult \in {"repoErr", "s3Err"}
             => /\ supPc = "done"
                /\ RolledBack
                /\ imageBranch = "none"
                /\ ~panicked
                /\ textPc # "crashed"
                /\ CountOps("sup:DeleteRecipe") = 1
                /\ \A j \in DOMAIN log : log[j] \in SupOps => log[j] = "sup:DeleteRecipe")
    /\ [][supPc = "rollback" => supPc' \in {"rollback", "done"}]_vars
    /\ [][supPc = "done" => UNCHANGED <<supVars, s3Image>>]_vars

\* C19 witness: the Draft Store delete of the rollback failed and the
\* supervisor returned, the draft still stored.
C19_Witness ==
    /\ deleteResult = "repoErr"
    /\ supPc = "done"
    /\ textBranch = "timeout"
    /\ recipeRow.present
    /\ log = <<"sup:DeleteRecipe">>

-----------------------------------------------------------------------------
(***************************************************************************)
(* The generation run: the completion channels                             *)
(***************************************************************************)

\* C20: each stage sends at most one value and the supervisor receives at
\* most one value from each channel.  The value a stage sends is chosen once
\* and never replaced, so no stage sends both an error and a success; a
\* stage whose send has completed has returned and sends nothing more; a
\* send has completed exactly when the supervisor received from that
\* channel, and the branch a select took is never taken again.
C20_WriteOnceReadOnce ==
    /\ [][textMsg # "none" => textMsg' = textMsg]_vars
    /\ [][imageMsg # "none" => imageMsg' = imageMsg]_vars
    /\ [][textPc = "done" => textPc' = "done"]_vars
    /\ [][imagePc = "done" => imagePc' = "done"]_vars
    /\ [][textBranch # "none" => textBranch' = textBranch]_vars
    /\ [][imageBranch # "none" => imageBranch' = imageBranch]_vars
    /\ [](textPc = "done" <=> textBranch \in {"ok", "err"})
    /\ [](imagePc = "done" <=> imageBranch \in {"ok", "err"})
    /\ [](textBranch = "ok" <=> (textPc = "done" /\ textMsg = "nil"))
    /\ [](imageBranch = "ok" <=> (imagePc = "done" /\ imageMsg = "nil"))

\* C20 witness: each stage has sent its one value, nil, and the supervisor
\* has received both.
C20_Witness ==
    /\ textPc = "done"
    /\ textMsg = "nil"
    /\ textBranch = "ok"
    /\ imagePc = "done"
    /\ imageMsg = "nil"
    /\ imageBranch = "ok"
    /\ supPc = "upload"

-----------------------------------------------------------------------------
(***************************************************************************)
(* The generation run: the stage goroutines after the supervisor returned  *)
(***************************************************************************)

\* C21: the stage goroutines do not outlive the run: once the supervising
\* task has returned, no stage goroutine is at a send on its completion
\* channel, where nothing would ever receive its value.
C21_NoStageBlockedAfterReturn ==
    supPc = "done" => (textPc # "send" /\ imagePc # "send")

-----------------------------------------------------------------------------
(***************************************************************************)
(* Tag Associator: the association a call leaves                           *)
(***************************************************************************)

\* The rows a set of normalized texts resolves to.
ResolvedRows(names) == {FindTagByName(tagRows, name) : name \in names}

\* C22: after a successful AssociateTagsWithRecipe(recipe, L) the recipe's
\* association is exactly the set of rows the normalized texts of L resolve
\* to, one row per text (also when entries of L normalize to the same
\* text), every one an existing row; a tag associated before and not
\* resolved from L is no longer associated.
C22_AssociationIsResolvedSet ==
    prevCall.ok =>
        /\ recipeTags[prevCall.recipe] = ResolvedRows(prevCall.tags)
        /\ Cardinality(recipeTags[prevCall.recipe]) = Cardinality(prevCall.tags)
        /\ \A id \in recipeTags[prevCall.recipe] :
              id \in DOMAIN tagRows /\ tagRows[id] \in prevCall.tags

\* C22 witness: the tags "a" and "b" exist, the last call was given a list
\* whose texts all normalize to "a", and the recipe is associated with "a"
\* alone while no recipe is associated with "b" any more.
C22_Witness ==
    /\ prevCall.ok
    /\ prevCall.recipe = 1
    /\ prevCall.tags = {<<"a">>}
    /\ tagRows = << <<"b">>, <<"a">> >>
    /\ recipeTags[1] = {2}
    /\ recipeTags[2] = {}

\* C26: a call that fails, while resolving a tag (lookup error, creation
\* error) or in the update itself, leaves every recipe's associations as
\* they were; tag rows created before the failure stay.
C26_FailedCallKeepsAssociations ==
    [][~prevCall'.ok => recipeTags' = recipeTags]_vars

\* C26 witness: the recipe was associated with "a"; a later call for it
\* created "b" and then failed, and the recipe is still associated with "a"
\* alone.
C26_Witness ==
    /\ ~prevCall.ok
    /\ prevCall.recipe = 1
    /\ <<"b">> \in prevCall.tags
    /\ tagRows = << <<"a">>, <<"b">> >>
    /\ recipeTags[1] = {1}
    /\ recipeTags[2] = {}

-----------------------------------------------------------------------------
(***************************************************************************)
(* The generation run: a failing Tag Associator                            *)
(***************************************************************************)

\* The Tag Associator of the run was called with hashtags and failed: the
\* recipe has no association.
TagAssociatorFailed ==
    /\ CountOps("text:AssociateTagsWithRecipe") = 1
    /\ mgr.RecipeDef.Hashtags # <<>>
    /\ recipeTags[rec.ID] = {}

\* C25: whatever the Tag Associator returns, the text stage goes on to send
\* nil; after a failed Tag Associator the supervisor that receives the
\* signal takes it as a success, goes to the image wait and deletes nothing.
C25_TagFailureKeepsRun ==
    /\ [][(textPc = "tags" /\ textPc' # "tags")
             => (textPc' = "send" /\ textMsg' = "nil"
                 /\ UNCHANGED <<recipeRow, supVars>>)]_vars
    /\ [][(textBranch = "none" /\ textBranch' = "ok") => supPc' = "waitImage"]_vars
    /\ [](TagAssociatorFailed
             => /\ textMsg = "nil"
                /\ textBranch # "err"
                /\ textPc = "done" => textBranch = "ok"
                /\ textBranch = "ok" =>
                      /\ deleteResult = "none"
                      /\ recipeRow.present
                      /\ Populated(recipeRow)
                      /\ supPc \in {"waitImage", "upload", "saveURL", "done"})

\* C25 witness: the Tag Associator failed, the supervisor received the
\* success signal and then the image, and is about to upload it.
C25_Witness ==
    /\ TagAssociatorFailed
    /\ textBranch = "ok"
    /\ imageBranch = "ok"
    /\ supPc = "upload"
    /\ recipeRow.present
    /\ deleteResult = "none"

-----------------------------------------------------------------------------
(***************************************************************************)
(* CompleteRecipeGeneration: properties                                    *)
(***************************************************************************)

\* C23: every provider client of the run is made with the user's decrypted
\* key when the user has a non-empty stored key and with the shared key
\* otherwise (a stored key that does not decrypt ends the run before any
\* client is made); chooseAPIKey is called at most once per run, both
\* clients get the key it returned, and no step changes the user's stored
\* key or the shared key.
C23_CredentialResolvedOnce ==
    /\ [](chooseCalls <= 1)
    /\ [](\A j \in DOMAIN keyUses :
              /\ chooseCalls = 1
              /\ keyUses[j] = key
              /\ keyUses[j] # ""
              /\ userKey # "" => keyUses[j] = DecryptOpenAIKey(userKey).key
              /\ userKey = "" => keyUses[j] = PublicOpenAIKey)
    /\ []((userKey # "" /\ DecryptOpenAIKey(userKey).err # "" /\ chooseCalls = 1)
             => (gPc = "returned" /\ keyUses = <<>> /\ gSteps = {}))
    /\ [][UNCHANGED <<userKey, publicKey>>]_vars

\* C23 witness: the user has a stored key, and the chat client and the
\* image client were both made with its decryption.
C23_Witness ==
    /\ userKey = "enc(sk-user)"
    /\ chooseCalls = 1
    /\ keyUses = <<"sk-user", "sk-user">>
    /\ gPc = "upload"

\* C24: no interleaving of the deadline and the goroutine leads to a send
\* on the closed channel done: the goroutine never panics.
C24_NoSendOnClosedDone ==
    ~gPanicked /\ gPc # "panicked"

\* The flag is set only after every store step of the goroutine succeeded
\* and its true was received, by the one store call of the caller.
FlagOnlyAfterAllSteps ==
    /\ generationComplete =>
          (gSteps = GenerationSteps /\ gPc = "returned" /\ sPc \in {"close", "done"})
    /\ (sPc = "flag") => (gSteps = GenerationSteps /\ gPc = "returned")

\* C27 as stated: the flag is set only in a run where the core fields were
\* persisted, the tags associated, the image uploaded and its URL
\* persisted, and the goroutine's signal was received, before the deadline;
\* a run with a failed step or with the deadline first never sets it.
C27_FlagOnlyBeforeDeadline ==
    /\ [](FlagOnlyAfterAllSteps)
    /\ [][(sPc = "select" /\ sPc' = "flag") => ~gExpired]_vars

\* C27 as amended: as stated, except that the signal is received in the
\* done branch of the select, which can still be taken when the deadline has
\* already expired and the signal is ready too; after the deadline branch
\* the flag is never set.
C27_FlagOnlyAfterDoneReceived ==
    /\ [](FlagOnlyAfterAllSteps)
    /\ [][(~generationComplete /\ generationComplete') => sPc = "flag"]_vars
    /\ [][(sPc = "select" /\ sPc' # "select")
             => \/ sPc' = "flag" /\ gPc = "send" /\ gPc' = "returned"
                \/ sPc' = "close" /\ gExpired /\ UNCHANGED <<gPc, generationComplete>>]_vars
    /\ []((gPc \in {"send", "panicked"} /\ sPc \in {"close", "done"})
             => ~generationComplete)

\* C27 witness: every step succeeded, the signal was received after the
\* deadline had expired, and the flag is set.
C27_Witness ==
    /\ generationComplete
    /\ gExpired
    /\ gSteps = GenerationSteps
    /\ sPc = "done"
    /\ doneClosed

-----------------------------------------------------------------------------
(***************************************************************************)
(* Rate limiter, trash and key verification                                *)
(***************************************************************************)

\* The entries of the map have distinct keys.
OneEntryPerIP ==
    \A e1, e2 \in limiters : e1.key = e2.key => e1 = e2

\* C28: the sweep removes an entry only if, at the moment of removal, its
\* IP has not been seen for longer than the expiration, also when a request
\* for that IP runs at the same time; and the map never holds two entries
\* for one IP.
C28_SweepRemovesOnlyExpired ==
    /\ [](OneEntryPerIP)
    /\ [][\A e \in limiters :
             e \notin limiters' => now - lastSeen[e.info] > expiration]_vars

\* A step of the collect handler that answers 200.
CollectSucceeds ==
    /\ response'.op = "collect"
    /\ response'.code = 200
    /\ \/ response' # response
       \/ recipeDeletedAt' # recipeDeletedAt
       \/ collectedRecipes' # collectedRecipes

\* C29: the recipe is soft-deleted only by a request whose user id is the
\* recipe's generating user id; it is collected from the trash only while
\* soft-deleted and fewer than 30 days after its deletion; after a
\* successful collect its deletion mark is cleared.
C29_SoftDeleteLifecycle ==
    /\ [][(recipeDeletedAt' # recipeDeletedAt /\ recipeDeletedAt' # NoDay)
             => /\ response'.op = "delete"
                /\ response'.code = 200
                /\ ParseUint(response'.id) = [n |-> GeneratedByUserID, err |-> FALSE]]_vars
    /\ [][CollectSucceeds
             => /\ recipeDeletedAt # NoDay
                /\ today - recipeDeletedAt < trashDays]_vars
    /\ []((response.op = "collect" /\ response.code = 200)
             => recipeDeletedAt = NoDay)

\* C30: no provider call for an empty key; at most 3 attempts otherwise; a
\* 401 ends the call with result invalid; the key is reported valid only
\* when a test call succeeded.
C30_ValidOnlyAfterSuccess ==
    /\ vKey = "" => vAnswers = <<>>
    /\ Len(vAnswers) <= verifyMaxRetries
    /\ \A i \in DOMAIN vAnswers :
          (vAnswers[i].api /\ vAnswers[i].status = 401)
             => /\ i = Len(vAnswers)
                /\ vPc = "done"
                /\ vResult = [valid |-> FALSE, err |-> "", returned |-> TRUE]
    /\ (vResult.returned /\ vResult.valid)
          => (vAnswers # <<>> /\ vAnswers[Len(vAnswers)] = NoErr)

====
